---- MODULE Spec2Model ----
(***************************************************************************)
(* LossLens: the Streamlit script app.py and its helpers under utils/.     *)
(*                                                                         *)
(* Money is held in cents (integers); Python floats that are quotients     *)
(* (ratios, means, percentages) are held as exact fractions [n, d].        *)
(* A missing value (NaN / None / NaT) is an explicit tag, never a number.  *)
(* Text that the code inspects character by character (column names,       *)
(* merchants, keywords, amount cells) is looked up in Chars and handled    *)
(* as a sequence of one-character strings.                                 *)
(***************************************************************************)
EXTENDS Integers, Sequences, FiniteSets, TLC

VARIABLES
    pc,         \* position of the script run of app.py
    env,        \* process environment: OPENAI_API_KEY set, openai importable
    use_gpt,    \* sidebar checkbox of this run
    uploaded,   \* the table handed to load_transactions in this run, or NoFile
    edited,     \* what st.data_editor returned in this run
    df,         \* the ledger of this run
    df_sorted,  \* the ledger ranked by Regret (tab 2)
    model,      \* what train_regret_model returned in this run
    summary,    \* the quick summary shown
    whatif,     \* the what-if simulator's result shown
    hotspots,   \* the hotspot tables computed
    clicked,    \* the button whose click started this run, or "none"
    steps,      \* the steps this run has reached
    msgs,       \* the messages this run has shown
    requests,   \* chat-completion requests issued in this run
    peers,      \* the peer comparison shown
    csv_bytes,  \* the exported CSV (tab 4)
    smtp,       \* what the "Send email" handler did on the SMTP connection
    call,       \* the library function called directly, with its arguments
    ret,        \* what that call returned
    prev        \* whether the script run before this one categorized and trained a model

vars ==
    <<pc, env, use_gpt, uploaded, edited, df, df_sorted, model, summary, whatif,
      hotspots, clicked, steps, msgs, requests, peers, csv_bytes, smtp, call, ret,
      prev>>

\* ------------------------------------------------------------------ bounds

\* lines of a short uploaded table
MaxRows == 2

\* rows of a ledger handed to a library function directly
MaxLedger == 2

\* rows of the ledgers handed to the charts
ChartLen == 6

\* ------------------------------------------------------------------ text

Chars ==
    ("Date" :> <<"D", "a", "t", "e">>) @@
    (" date" :> <<" ", "d", "a", "t", "e">>) @@
    ("Merchant" :> <<"M", "e", "r", "c", "h", "a", "n", "t">>) @@
    ("MERCHANT " :> <<"M", "E", "R", "C", "H", "A", "N", "T", " ">>) @@
    ("Amount" :> <<"A", "m", "o", "u", "n", "t">>) @@
    ("amount" :> <<"a", "m", "o", "u", "n", "t">>) @@
    ("Amt" :> <<"A", "m", "t">>) @@
    ("Category" :> <<"C", "a", "t", "e", "g", "o", "r", "y">>) @@
    ("Happiness" :> <<"H", "a", "p", "p", "i", "n", "e", "s", "s">>) @@
    ("date" :> <<"d", "a", "t", "e">>) @@
    ("merchant" :> <<"m", "e", "r", "c", "h", "a", "n", "t">>) @@
    ("amt" :> <<"a", "m", "t">>) @@
    ("category" :> <<"c", "a", "t", "e", "g", "o", "r", "y">>) @@
    ("happiness" :> <<"h", "a", "p", "p", "i", "n", "e", "s", "s">>) @@
    ("Starbucks" :> <<"S", "t", "a", "r", "b", "u", "c", "k", "s">>) @@
    ("Shell Gas" :> <<"S", "h", "e", "l", "l", " ", "G", "a", "s">>) @@
    ("Target Pharmacy" :> <<"T", "a", "r", "g", "e", "t", " ", "P", "h", "a", "r", "m", "a", "c", "y">>) @@
    ("Corner Bakery" :> <<"C", "o", "r", "n", "e", "r", " ", "B", "a", "k", "e", "r", "y">>) @@
    (" Starbucks" :> <<" ", "S", "t", "a", "r", "b", "u", "c", "k", "s">>) @@
    ("nan" :> <<"n", "a", "n">>) @@
    ("whole foods" :> <<"w", "h", "o", "l", "e", " ", "f", "o", "o", "d", "s">>) @@
    ("grocery" :> <<"g", "r", "o", "c", "e", "r", "y">>) @@
    ("safeway" :> <<"s", "a", "f", "e", "w", "a", "y">>) @@
    ("walmart" :> <<"w", "a", "l", "m", "a", "r", "t">>) @@
    ("aldi" :> <<"a", "l", "d", "i">>) @@
    ("kroger" :> <<"k", "r", "o", "g", "e", "r">>) @@
    ("starbucks" :> <<"s", "t", "a", "r", "b", "u", "c", "k", "s">>) @@
    ("restaurant" :> <<"r", "e", "s", "t", "a", "u", "r", "a", "n", "t">>) @@
    ("cafe" :> <<"c", "a", "f", "e">>) @@
    ("diner" :> <<"d", "i", "n", "e", "r">>) @@
    ("pizza" :> <<"p", "i", "z", "z", "a">>) @@
    ("burger" :> <<"b", "u", "r", "g", "e", "r">>) @@
    ("taco" :> <<"t", "a", "c", "o">>) @@
    ("uber" :> <<"u", "b", "e", "r">>) @@
    ("lyft" :> <<"l", "y", "f", "t">>) @@
    ("metra" :> <<"m", "e", "t", "r", "a">>) @@
    ("train" :> <<"t", "r", "a", "i", "n">>) @@
    ("bus" :> <<"b", "u", "s">>) @@
    ("shell" :> <<"s", "h", "e", "l", "l">>) @@
    ("gas" :> <<"g", "a", "s">>) @@
    ("exxon" :> <<"e", "x", "x", "o", "n">>) @@
    ("amazon" :> <<"a", "m", "a", "z", "o", "n">>) @@
    ("target" :> <<"t", "a", "r", "g", "e", "t">>) @@
    ("best buy" :> <<"b", "e", "s", "t", " ", "b", "u", "y">>) @@
    ("shop" :> <<"s", "h", "o", "p">>) @@
    ("netflix" :> <<"n", "e", "t", "f", "l", "i", "x">>) @@
    ("hulu" :> <<"h", "u", "l", "u">>) @@
    ("movie" :> <<"m", "o", "v", "i", "e">>) @@
    ("cinema" :> <<"c", "i", "n", "e", "m", "a">>) @@
    ("spotify" :> <<"s", "p", "o", "t", "i", "f", "y">>) @@
    ("pharmacy" :> <<"p", "h", "a", "r", "m", "a", "c", "y">>) @@
    ("walgreens" :> <<"w", "a", "l", "g", "r", "e", "e", "n", "s">>) @@
    ("cvs" :> <<"c", "v", "s">>) @@
    ("doctor" :> <<"d", "o", "c", "t", "o", "r">>) @@
    ("clinic" :> <<"c", "l", "i", "n", "i", "c">>) @@
    ("airlines" :> <<"a", "i", "r", "l", "i", "n", "e", "s">>) @@
    ("delta" :> <<"d", "e", "l", "t", "a">>) @@
    ("american airlines" :> <<"a", "m", "e", "r", "i", "c", "a", "n", " ", "a", "i", "r", "l", "i", "n", "e", "s">>) @@
    ("hotel" :> <<"h", "o", "t", "e", "l">>) @@
    ("hilton" :> <<"h", "i", "l", "t", "o", "n">>) @@
    ("electric" :> <<"e", "l", "e", "c", "t", "r", "i", "c">>) @@
    ("water" :> <<"w", "a", "t", "e", "r">>) @@
    ("comcast" :> <<"c", "o", "m", "c", "a", "s", "t">>) @@
    ("verizon" :> <<"v", "e", "r", "i", "z", "o", "n">>) @@
    ("att" :> <<"a", "t", "t">>) @@
    ("Groceries" :> <<"G", "r", "o", "c", "e", "r", "i", "e", "s">>) @@
    ("Dining" :> <<"D", "i", "n", "i", "n", "g">>) @@
    ("Transport" :> <<"T", "r", "a", "n", "s", "p", "o", "r", "t">>) @@
    ("Utilities" :> <<"U", "t", "i", "l", "i", "t", "i", "e", "s">>) @@
    ("Shopping" :> <<"S", "h", "o", "p", "p", "i", "n", "g">>) @@
    ("Health" :> <<"H", "e", "a", "l", "t", "h">>) @@
    ("Entertainment" :> <<"E", "n", "t", "e", "r", "t", "a", "i", "n", "m", "e", "n", "t">>) @@
    ("Travel" :> <<"T", "r", "a", "v", "e", "l">>) @@
    ("Other" :> <<"O", "t", "h", "e", "r">>) @@
    ("Coffee" :> <<"C", "o", "f", "f", "e", "e">>) @@
    (" Dining " :> <<" ", "D", "i", "n", "i", "n", "g", " ">>) @@
    ("" :> <<>>) @@
    ("$0.10" :> <<"$", "0", ".", "1", "0">>) @@
    ("-0.03" :> <<"-", "0", ".", "0", "3">>) @@
    ("abc" :> <<"a", "b", "c">>) @@
    ("0" :> <<"0">>) @@
    ("1-2" :> <<"1", "-", "2">>) @@
    ("5" :> <<"5">>) @@
    ("1" :> <<"1">>) @@
    ("2024-01-05" :> <<"2", "0", "2", "4", "-", "0", "1", "-", "0", "5">>) @@
    ("2024-02-10" :> <<"2", "0", "2", "4", "-", "0", "2", "-", "1", "0">>) @@
    ("soon" :> <<"s", "o", "o", "n">>)

UpperAlphabet ==
    <<"A", "B", "C", "D", "E", "F", "G", "H", "I", "J", "K", "L", "M",
      "N", "O", "P", "Q", "R", "S", "T", "U", "V", "W", "X", "Y", "Z">>

LowerAlphabet ==
    <<"a", "b", "c", "d", "e", "f", "g", "h", "i", "j", "k", "l", "m",
      "n", "o", "p", "q", "r", "s", "t", "u", "v", "w", "x", "y", "z">>

Digits == <<"0", "1", "2", "3", "4", "5", "6", "7", "8", "9">>

Range(s) == {s[i] : i \in DOMAIN s}

\* the sequence s with its elements evaluated once
Tuple(s) == SubSeq(s, 1, Len(s))

\* F(x), with x evaluated once
Bind(x, F(_)) == CHOOSE y \in {F(v) : v \in {x}} : TRUE

SetMin(S) == CHOOSE x \in S : \A y \in S : x <= y

SetMax(S) == CHOOSE x \in S : \A y \in S : y <= x

\* str.lower() on one character
LowerChar(c) ==
    IF \E i \in DOMAIN UpperAlphabet : UpperAlphabet[i] = c
    THEN LowerAlphabet[CHOOSE i \in DOMAIN UpperAlphabet : UpperAlphabet[i] = c]
    ELSE c

LowerChars(cs) == [i \in 1..Len(cs) |-> LowerChar(cs[i])]

\* str.strip(): leading and trailing whitespace removed
StripChars(cs) ==
    LET keep == {i \in 1..Len(cs) : cs[i] # " "}
    IN  IF keep = {} THEN <<>> ELSE SubSeq(cs, SetMin(keep), SetMax(keep))

\* the string spelled by a sequence of characters
StrOf(cs) == CHOOSE s \in DOMAIN Chars : Chars[s] = cs

Strip(s) == StrOf(StripChars(Chars[s]))

Lower(s) == StrOf(LowerChars(Chars[s]))

\* Python's `k in m` on strings: k occurs in m as a substring
Contains(m, k) ==
    \E i \in 0..(Len(m) - Len(k)) : SubSeq(m, i + 1, i + Len(k)) = k

\* ------------------------------------------------------------------ values

\* a float column's cell: a number (in the column's unit) or NaN
NaN == [nan |-> TRUE, v |-> 0]

Num(x) == [nan |-> FALSE, v |-> x]

\* a missing cell of an object column (Merchant, Category)
NA == "<NA>"

\* a missing timestamp
NaT == [y |-> 0, m |-> 0, d |-> 0]

Abs(x) == IF x < 0 THEN -x ELSE x

\* the integer nearest to n / d (d > 0, n >= 0), halves to the even neighbour
RoundHalfEven(n, d) ==
    LET q == n \div d
        r == n % d
    IN  IF 2 * r < d THEN q
        ELSE IF 2 * r > d THEN q + 1
        ELSE IF q % 2 = 0 THEN q ELSE q + 1

\* int(x) for x = t / 10: truncation toward zero
TruncTenths(t) == IF t >= 0 THEN t \div 10 ELSE -((-t) \div 10)

Clip(x, lo, hi) == IF x < lo THEN lo ELSE IF x > hi THEN hi ELSE x

\* ------------------------------------------------------------------ parsing

IsDigit(c) == \E i \in DOMAIN Digits : Digits[i] = c

DigitVal(c) == (CHOOSE i \in DOMAIN Digits : Digits[i] = c) - 1

RECURSIVE DigitsVal(_)
DigitsVal(cs) ==
    IF cs = <<>> THEN 0
    ELSE 10 * DigitsVal(SubSeq(cs, 1, Len(cs) - 1)) + DigitVal(cs[Len(cs)])

\* str.replace(r"[^0-9.-]", ""): only digits, "." and "-" survive
CleanAmountChars(cs) ==
    SelectSeq(cs, LAMBDA c : IsDigit(c) \/ c = "." \/ c = "-")

\* pd.to_numeric(errors="coerce") on a cleaned cell, in cents: an optional
\* leading "-", digits with at most one ".", at least one digit; else NaN.
\* (Cells of the model carry at most two decimals.)
ToNumericCents(cs) ==
    LET neg  == cs # <<>> /\ cs[1] = "-"
        body == IF neg THEN Tail(cs) ELSE cs
        dots == {i \in 1..Len(body) : body[i] = "."}
        ok   == /\ \A i \in 1..Len(body) : IsDigit(body[i]) \/ body[i] = "."
                /\ Cardinality(dots) <= 1
                /\ \E i \in 1..Len(body) : IsDigit(body[i])
        dot  == IF dots = {} THEN Len(body) + 1 ELSE SetMin(dots)
        ip   == SubSeq(body, 1, dot - 1)
        fp   == SubSeq(body, dot + 1, Len(body))
        frac == IF Len(fp) = 0 THEN 0
                ELSE IF Len(fp) = 1 THEN 10 * DigitsVal(fp)
                ELSE DigitsVal(SubSeq(fp, 1, 2))
        mag  == 100 * DigitsVal(ip) + frac
    IN  IF ~ok THEN NaN ELSE Num(IF neg THEN -mag ELSE mag)

\* df["Amount"].astype(str).str.replace(...) then pd.to_numeric, per cell
AmountOfCell == [cell \in DOMAIN Chars |-> ToNumericCents(CleanAmountChars(Chars[cell]))]

ParseAmount(cell) == AmountOfCell[cell]

\* pd.to_datetime(errors="coerce") on a cell: YYYY-MM-DD, anything else NaT
DateOfChars(cs) ==
    LET
        ok == /\ Len(cs) = 10
              /\ cs[5] = "-" /\ cs[8] = "-"
              /\ \A i \in {1, 2, 3, 4, 6, 7, 9, 10} : IsDigit(cs[i])
        mm == DigitsVal(SubSeq(cs, 6, 7))
        dd == DigitsVal(SubSeq(cs, 9, 10))
    IN  IF ok /\ mm \in 1..12 /\ dd \in 1..31
        THEN [y |-> DigitsVal(SubSeq(cs, 1, 4)), m |-> mm, d |-> dd]
        ELSE NaT

DateOfCell == [cell \in DOMAIN Chars |-> DateOfChars(Chars[cell])]

ParseDate(cell) == DateOfCell[cell]

\* ------------------------------------------------------------------ ledger

\* A ledger row.  Happiness is the cell as pandas holds it before coercion:
\* k = "num" (v in tenths), "nan" (missing), "text" (not a number), "inf".
HapNum(t) == [k |-> "num", v |-> t]

HapNaN == [k |-> "nan", v |-> 0]

HapText == [k |-> "text", v |-> 0]

HapInf == [k |-> "inf", v |-> 0]

Row(date, merchant, amount, category, happiness, regret, extra) ==
    [Date |-> date, Merchant |-> merchant, Amount |-> amount,
     Category |-> category, Happiness |-> happiness, Regret |-> regret,
     extra |-> extra]

\* no file: st.file_uploader returned None and the sample button is not pressed
NoFile == [present |-> FALSE, source |-> "none", header |-> <<>>, rows |-> <<>>]

\* ------------------------------------------------------------------ app.py, tab 1

\* df.columns = [c.strip().lower() for c in df.columns]
NormCol(c) == StrOf(LowerChars(StripChars(Chars[c])))

\* the column names the uploaded tables use
HeaderNames ==
    {"Date", " date", "Merchant", "MERCHANT ", "Amount", "amount", "Amt",
     "Category", "Happiness"}

NormColOf == [c \in HeaderNames |-> NormCol(c)]

NormCols(header) == [i \in 1..Len(header) |-> NormColOf[header[i]]]

Expected == {"date", "merchant", "amount"}

HasExpected(header) == Expected \subseteq Range(NormCols(header))

\* df.rename(columns={"date": "Date", "merchant": "Merchant", "amount": "Amount"})
RenameCol(c) ==
    CASE c = "date" -> "Date"
      [] c = "merchant" -> "Merchant"
      [] c = "amount" -> "Amount"
      [] OTHER -> c

Columns(header) == [i \in 1..Len(header) |-> RenameCol(NormCols(header)[i])]

ColIndex(cols, name) == CHOOSE i \in DOMAIN cols : cols[i] = name

\* an object cell as pd.read_csv reads it: an empty cell is missing
ObjectCell(cell) == IF cell = "" THEN NA ELSE cell

\* a Happiness cell as pd.read_csv reads it
HappinessCell(cell) ==
    LET n == ToNumericCents(Chars[cell])
    IN  IF cell = "" THEN HapNaN
        ELSE IF n.nan THEN HapText
        ELSE HapNum(n.v \div 10)

\* load_transactions, after the column check passed
load_transactions(file) ==
    LET cols   == Columns(file.header)
        names  == Range(cols)
        others == names \ {"Date", "Merchant", "Amount", "Category", "Happiness"}
    IN  [i \in 1..Len(file.rows) |->
            LET r == file.rows[i]
            IN  Row(ParseDate(r[ColIndex(cols, "Date")]),
                    ObjectCell(r[ColIndex(cols, "Merchant")]),
                    ParseAmount(r[ColIndex(cols, "Amount")]),
                    IF "Category" \in names
                        THEN ObjectCell(r[ColIndex(cols, "Category")]) ELSE "",
                    IF "Happiness" \in names
                        THEN HappinessCell(r[ColIndex(cols, "Happiness")])
                        ELSE HapNum(30),
                    NaN,
                    [c \in others |-> r[ColIndex(cols, c)]])]

\* the same without .clip(1, 5)
ValidHappiness_NoClip(raw) ==
    TruncTenths(IF raw.k \in {"nan", "text"} THEN 30 ELSE raw.v)

\* pd.to_numeric(errors="coerce").fillna(3).astype(int).clip(1, 5)
ValidHappiness(raw) ==
    LET filled == IF raw.k \in {"nan", "text"} THEN 30 ELSE raw.v
    IN  Clip(TruncTenths(filled), 1, 5)

\* |Amount| * (1 - Happiness / 5.0), rounded to 2 decimals (cents)
RegretScore(amount, h) ==
    IF amount.nan THEN NaN ELSE Num(RoundHalfEven(Abs(amount.v) * (5 - h), 5))

ValidateRow(r) ==
    LET h == ValidHappiness(r.Happiness)
    IN  [r EXCEPT !.Happiness = HapNum(10 * h), !.Regret = RegretScore(r.Amount, h)]

Validate(d) == [i \in 1..Len(d) |-> ValidateRow(d[i])]

\* .astype(int) raises on a non-finite value
ValidateRaises(d) == \E i \in 1..Len(d) : d[i].Happiness.k = "inf"

\* ------------------------------------------------------------------ inputs

\* train_regret_model(df, min_samples=30) in app.py
MinSamples == 30

\* header rows of the uploaded tables: each column's name and the cell it holds
HeaderChoices ==
    { << <<"Date", "date">>, <<"Merchant", "merchant">>, <<"Amount", "amount">> >>,
      << <<" date", "date">>, <<"MERCHANT ", "merchant">>, <<"amount", "amount">>,
         <<"Category", "category">>, <<"Happiness", "happiness">> >>,
      << <<"Date", "date">>, <<"Merchant", "merchant">>, <<"Amt", "amount">> >>,
      << <<"Merchant", "merchant">>, <<"Amount", "amount">> >> }

\* the cells of one uploaded line, by the column they belong to
CellRows ==
    { [date |-> "2024-01-05", merchant |-> "Starbucks", amount |-> "$0.10",
       category |-> "Dining", happiness |-> "5"],
      [date |-> "2024-02-10", merchant |-> "Shell Gas", amount |-> "-0.03",
       category |-> "", happiness |-> "1"],
      [date |-> "soon", merchant |-> "Starbucks", amount |-> "abc",
       category |-> "Coffee", happiness |-> ""] }

\* the header row most uploaded tables carry
PlainHeader ==
    << <<"Date", "date">>, <<"Merchant", "merchant">>, <<"Amount", "amount">> >>

SeqsUpTo(S, n) == UNION {[1..k -> S] : k \in 0..n}

\* a table of n lines, all of them the line r
Pad(r, n) == [i \in 1..n |-> r]

\* the lines a long uploaded table repeats: one with a numeric Amount, one without
LongNumeric ==
    [date |-> "2024-01-05", merchant |-> "Starbucks", amount |-> "$0.10",
     category |-> "Dining", happiness |-> "5"]

LongText ==
    [date |-> "soon", merchant |-> "Starbucks", amount |-> "abc",
     category |-> "Coffee", happiness |-> ""]

\* the bodies of the uploaded tables: short ones of any lines, one-line ones
\* for the other headers, and long ones on either side of MinSamples
ShortBodies == SeqsUpTo(CellRows, MaxRows)

OneLineBodies == {<<>>} \cup { <<r>> : r \in CellRows }

LongBodies ==
    { Pad(LongNumeric, MinSamples - 1), Pad(LongNumeric, MinSamples),
      Pad(LongText, MinSamples) }

CsvFile(h, cells, source) ==
    [present |-> TRUE, source |-> source,
     header |-> [j \in 1..Len(h) |-> h[j][1]],
     rows |-> [i \in 1..Len(cells) |-> [j \in 1..Len(h) |-> cells[i][h[j][2]]]]]

CsvFiles ==
    { CsvFile(PlainHeader, cells, "file") : cells \in ShortBodies \cup LongBodies }
    \cup { CsvFile(h, cells, "file") : h \in HeaderChoices, cells \in OneLineBodies }

\* data/sample.csv
SampleFile ==
    [present |-> TRUE, source |-> "sample",
     header |-> <<"Date", "Merchant", "Amount">>,
     rows |-> << <<"2024-01-05", "Starbucks", "$0.10">>,
                 <<"2024-02-10", "Shell Gas", "-0.03">> >>]

\* what the user may type into a Happiness cell of the editor
HapEdits ==
    { HapNaN, HapText, HapInf, HapNum(-10), HapNum(47), HapNum(90) }

\* what the user may type into a Category cell of the editor
CatEdits == {"Coffee"}

\* st.data_editor(df, num_rows="fixed"): the table as it is, or (a short
\* table) with one of the first row's Happiness or Category retyped
EditorOutputs(d) ==
    LET editable == d # <<>> /\ Len(d) <= MaxRows
    IN  {d}
        \cup { [d EXCEPT ![1].Happiness = h] : h \in IF editable THEN HapEdits ELSE {} }
        \cup { [d EXCEPT ![1].Category = c] : c \in IF editable THEN CatEdits ELSE {} }

\* ------------------------------------------------------------------ utils/categorize_gpt.py

\* the taxonomy the prompt names
Taxonomy ==
    {"Groceries", "Dining", "Transport", "Utilities", "Shopping", "Health",
     "Entertainment", "Travel", "Other"}

\* FALLBACK_KEYWORDS, in the dictionary's order
FALLBACK_KEYWORDS ==
    << [cat |-> "Groceries",
        keys |-> <<"whole foods", "grocery", "safeway", "walmart", "aldi", "kroger">>],
       [cat |-> "Dining",
        keys |-> <<"starbucks", "restaurant", "cafe", "diner", "pizza", "burger", "taco">>],
       [cat |-> "Transport",
        keys |-> <<"uber", "lyft", "metra", "train", "bus", "shell", "gas", "exxon">>],
       [cat |-> "Shopping",
        keys |-> <<"amazon", "target", "best buy", "shop">>],
       [cat |-> "Entertainment",
        keys |-> <<"netflix", "hulu", "movie", "cinema", "spotify">>],
       [cat |-> "Health",
        keys |-> <<"pharmacy", "walgreens", "cvs", "doctor", "clinic">>],
       [cat |-> "Travel",
        keys |-> <<"airlines", "delta", "american airlines", "hotel", "hilton">>],
       [cat |-> "Utilities",
        keys |-> <<"electric", "water", "comcast", "verizon", "att">>] >>

\* heuristic_category on the characters of a merchant
HeuristicOfChars(cs) ==
    LET m    == LowerChars(cs)
        hits == {i \in DOMAIN FALLBACK_KEYWORDS :
                    \E j \in DOMAIN FALLBACK_KEYWORDS[i].keys :
                        Contains(m, Chars[FALLBACK_KEYWORDS[i].keys[j]])}
    IN  IF hits = {} THEN "Other" ELSE FALLBACK_KEYWORDS[SetMin(hits)].cat

\* the merchant strings of the model ("nan" is str() of a missing cell)
MerchantNames ==
    {"Starbucks", " Starbucks", "Shell Gas", "Target Pharmacy", "Corner Bakery",
     "", "nan"}

HeuristicOf == [m \in MerchantNames |-> HeuristicOfChars(Chars[m])]

heuristic_category(merchant) == HeuristicOf[merchant]

\* the strings a reply's items carry
ReplyStrings ==
    {"Starbucks", " Starbucks", "Shell Gas", "Dining", " Dining ", "Coffee", "Transport"}

StripOf == [s \in ReplyStrings |-> Strip(s)]

\* `use_gpt and openai is not None and os.getenv("OPENAI_API_KEY")`
LlmEnabled(gpt, e) == gpt /\ e.lib /\ e.key

\* A chat-completion outcome: the call raises ("raise"), the text holds no
\* [...] ("nojson"), json.loads fails ("badjson"), or the array parses to
\* items, whose merchant / category is a string or (NA) absent or no string.
ReplyFails(reply) ==
    \/ reply.kind \in {"raise", "nojson", "badjson"}
    \/ \E i \in DOMAIN reply.items :
          reply.items[i].merchant = NA \/ reply.items[i].category = NA

\* {item["merchant"].strip(): item["category"].strip() for item in j}
Mapping(items) ==
    [k \in {StripOf[items[i].merchant] : i \in DOMAIN items} |->
        LET last == SetMax({i \in DOMAIN items : StripOf[items[i].merchant] = k})
        IN  StripOf[items[last].category]]

\* str(m) of a Merchant cell
StrOfCell(m) == IF m = NA THEN "nan" ELSE m

\* .fillna("") of a Merchant cell
FillEmpty(m) == IF m = NA THEN "" ELSE m

\* the fallback route: df["Merchant"].fillna("").apply(heuristic_category)
CategorizeFallback(d) ==
    [i \in 1..Len(d) |-> [d[i] EXCEPT !.Category = heuristic_category(FillEmpty(d[i].Merchant))]]

\* the LLM route once the reply parsed
CategorizeMapped(d, mapping) ==
    [i \in 1..Len(d) |->
        LET m == StrOfCell(d[i].Merchant)
        IN  [d[i] EXCEPT !.Category =
                IF m \in DOMAIN mapping THEN mapping[m] ELSE heuristic_category(m)]]

\* one request per distinct merchant instead of one prompt for all
CategorizeRequests_PerMerchant(d, gpt, e) ==
    IF LlmEnabled(gpt, e) THEN Cardinality({d[i].Merchant : i \in 1..Len(d)}) ELSE 0

\* chat-completion requests one call of categorize_transactions issues:
\* one openai.ChatCompletion.create, inside the LLM branch
CategorizeRequests(d, gpt, e) == IF LlmEnabled(gpt, e) THEN 1 ELSE 0

\* the same without the try / except around the LLM route
categorize_transactions_NoExcept(d, gpt, e, reply) ==
    IF LlmEnabled(gpt, e)
    THEN IF ReplyFails(reply)
         THEN [raised |-> TRUE, requests |-> CategorizeRequests(d, gpt, e), rows |-> d]
         ELSE [raised |-> FALSE, requests |-> CategorizeRequests(d, gpt, e),
               rows |-> CategorizeMapped(d, Mapping(reply.items))]
    ELSE [raised |-> FALSE, requests |-> CategorizeRequests(d, gpt, e),
          rows |-> CategorizeFallback(d)]

\* categorize_transactions: the rows it returns, whether an exception left
\* the call, and the requests it issued
categorize_transactions(d, gpt, e, reply) ==
    IF LlmEnabled(gpt, e)
    THEN IF ReplyFails(reply)
         THEN \* except Exception: print, then the fallback route
              [raised |-> FALSE, requests |-> CategorizeRequests(d, gpt, e),
               rows |-> CategorizeFallback(d)]
         ELSE [raised |-> FALSE, requests |-> CategorizeRequests(d, gpt, e),
               rows |-> CategorizeMapped(d, Mapping(reply.items))]
    ELSE [raised |-> FALSE, requests |-> CategorizeRequests(d, gpt, e),
          rows |-> CategorizeFallback(d)]

\* ------------------------------------------------------------------ fractions

RECURSIVE Gcd(_, _)
Gcd(a, b) == IF b = 0 THEN a ELSE Gcd(b, a % b)

\* a float that is NaN
NoFrac == [nan |-> TRUE, n |-> 0, d |-> 1]

\* the float n / d (d # 0) as a fraction in lowest terms with d > 0
Frac(n, d) ==
    LET sn == IF d < 0 THEN -n ELSE n
        sd == Abs(d)
        g  == Gcd(Abs(sn), sd)
    IN  [nan |-> FALSE, n |-> sn \div g, d |-> sd \div g]

FracInt(x) == [nan |-> FALSE, n |-> x, d |-> 1]

\* a float cell (Num / NaN) as a fraction
FracOf(cell) == IF cell.nan THEN NoFrac ELSE FracInt(cell.v)

FracAdd(a, b) ==
    IF a.nan \/ b.nan THEN NoFrac ELSE Frac(a.n * b.d + b.n * a.d, a.d * b.d)

FracSub(a, b) ==
    IF a.nan \/ b.nan THEN NoFrac ELSE Frac(a.n * b.d - b.n * a.d, a.d * b.d)

FracMul(a, b) == IF a.nan \/ b.nan THEN NoFrac ELSE Frac(a.n * b.n, a.d * b.d)

\* a / b for b # 0
FracDiv(a, b) == IF a.nan \/ b.nan THEN NoFrac ELSE Frac(a.n * b.d, a.d * b.n)

\* comparisons are false as soon as one side is NaN
FracLe(a, b) == ~a.nan /\ ~b.nan /\ a.n * b.d <= b.n * a.d

FracLt(a, b) == ~a.nan /\ ~b.nan /\ a.n * b.d < b.n * a.d

FracEq(a, b) == ~a.nan /\ ~b.nan /\ a.n * b.d = b.n * a.d

\* x itself, negative or not
FracMax0_Keep(a) == a

\* max(0.0, x): x only when x > 0.0
FracMax0(a) == IF FracLt(FracInt(0), a) THEN a ELSE FracInt(0)

RECURSIVE FracSum(_)
FracSum(fs) ==
    IF fs = <<>> THEN FracInt(0)
    ELSE FracAdd(FracSum(SubSeq(fs, 1, Len(fs) - 1)), fs[Len(fs)])

\* Series.mean() over values none of which is NaN (fs # <<>>)
FracMean(fs) == FracMul(FracSum(fs), Frac(1, Len(fs)))

\* ------------------------------------------------------------------ sorting

\* a sorts no later than b under sort_values(ascending=False): NaN goes last
SortsBefore(a, b) == b.nan \/ FracLe(b, a)

\* the indices of keys in the order sort_values(ascending=False) gives
\* them, rows with equal keys in their original order
RECURSIVE SortPermDesc(_, _)
SortPermDesc(keys, k) ==
    IF k = 0 THEN <<>>
    ELSE Bind(SortPermDesc(keys, k - 1), LAMBDA perm :
            LET pos == Cardinality({j \in 1..Len(perm) : SortsBefore(keys[perm[j]], keys[k])})
            IN  SubSeq(perm, 1, pos) \o <<k>> \o SubSeq(perm, pos + 1, Len(perm)))

SortDesc(rows, keys) ==
    Bind(Tuple(keys), LAMBDA ks :
        Bind(SortPermDesc(ks, Len(ks)), LAMBDA perm :
            Tuple([i \in 1..Len(perm) |-> rows[perm[i]]])))

\* .head(n)
Head_n(rows, n) == SubSeq(rows, 1, IF Len(rows) < n THEN Len(rows) ELSE n)

\* ------------------------------------------------------------------ utils/regret_predictor.py

\* _prepare_df on one row: |Amount|, Happiness as int (3 when missing),
\* Merchant and Category "Unknown" when missing
PrepareRow(r) ==
    [r EXCEPT !.Amount = IF r.Amount.nan THEN NaN ELSE Num(Abs(r.Amount.v)),
              !.Happiness = HapNum(10 * TruncTenths(
                                IF r.Happiness.k \in {"nan", "text"} THEN 30
                                ELSE r.Happiness.v)),
              !.Merchant = IF r.Merchant = NA THEN "Unknown" ELSE r.Merchant,
              !.Category = IF r.Category = NA THEN "Unknown" ELSE r.Category]

_prepare_df(d) == [i \in 1..Len(d) |-> PrepareRow(d[i])]

\* no model: train_regret_model returned (None, None), or the caller passed None
NoModel == [trained |-> FALSE, fails |-> FALSE, slope |-> 0, offset |-> 0]

\* A fitted pipeline.  What model.predict does is the library's business: it
\* raises (fails, or a NaN in the row), or returns offset + slope * amount
\* (cents).
Model(fails, slope, offset) ==
    [trained |-> TRUE, fails |-> fails, slope |-> slope, offset |-> offset]

Models ==
    { Model(TRUE, 0, 0), Model(FALSE, 0, -5), Model(FALSE, 1, 0), Model(FALSE, 0, 7) }

\* cross_val_score / model.fit raise: the target holds NaN (a row without a
\* numeric Amount), or the library refuses (fit_fails)
TrainRaises(d, min_samples, fit_fails) ==
    /\ Len(d) >= min_samples
    /\ fit_fails \/ \E i \in 1..Len(d) : PrepareRow(d[i]).Amount.nan

\* the same without the min_samples check
train_regret_model_NoMinimum(d, min_samples, fitted) == fitted

\* train_regret_model when it returns: the model, or NoModel for (None, None)
train_regret_model(d, min_samples, fitted) ==
    IF Len(d) < min_samples THEN NoModel ELSE fitted

\* the rows heuristic_predict keeps (Amount > 0) with their ratio Regret / Amount
RatioRows(d) ==
    LET p == _prepare_df(d)
    IN  SelectSeq(p, LAMBDA r : ~r.Amount.nan /\ r.Amount.v > 0)

\* the mean of the ratios of the rows satisfying Keep(r), NaN ratios skipped;
\* NoFrac when there is none
RatioMean(rows, Keep(_)) ==
    LET sel == SelectSeq(rows, LAMBDA r : Keep(r) /\ ~r.Regret.nan)
    IN  IF sel = <<>> THEN NoFrac
        ELSE FracMean([i \in 1..Len(sel) |-> Frac(sel[i].Regret.v, sel[i].Amount.v)])

merchant_ratio(rows, merchant) == RatioMean(rows, LAMBDA r : r.Merchant = merchant)

category_ratio(rows, category) == RatioMean(rows, LAMBDA r : r.Category = category)

overall_ratio(rows) == RatioMean(rows, LAMBDA r : TRUE)

\* the first of merchant, category and overall ratio that is a number
HistoricalRatio(d, merchant, category) ==
    LET rows == RatioRows(d)
        mr   == merchant_ratio(rows, merchant)
        cr   == category_ratio(rows, category)
        ov   == overall_ratio(rows)
    IN  IF ~mr.nan THEN mr ELSE IF ~cr.nan THEN cr ELSE ov

\* the last resort: max(0.0, 1 - happiness / 5.0)
Proxy(happiness) == FracMax0(Frac(5 - happiness, 5))

\* heuristic_predict for an amount in cents (a fraction, NaN possible): the
\* predicted regret in cents and the tier that produced it
heuristic_predict(d, merchant, category, amount, happiness) ==
    LET hr == HistoricalRatio(d, merchant, category)
    IN  IF ~hr.nan
        THEN [value |-> FracMul(amount, FracMax0(hr)), tier |-> "ratio"]
        ELSE [value |-> FracMul(amount, Proxy(happiness)), tier |-> "proxy"]

\* model.predict(row_df)[0]
ModelPredict(mdl, amount, happiness) ==
    FracAdd(FracInt(mdl.offset), FracMul(FracInt(mdl.slope), amount))

\* the heuristic tier of predict_regret_with_fallback (its last line)
HeuristicResult(d, merchant, category, amount, happiness) ==
    LET h == heuristic_predict(d, merchant, category, amount, happiness)
    IN  [raised |-> FALSE, value |-> h.value, tier |-> h.tier, method |-> "heuristic"]

\* the same without the try / except around model.predict
predict_regret_with_fallback_NoExcept(mdl, d, merchant, category, amount, happiness) ==
    IF mdl.trained
    THEN IF mdl.fails \/ amount.nan
         THEN [raised |-> TRUE, value |-> NoFrac, tier |-> "model", method |-> "model"]
         ELSE [raised |-> FALSE,
               value |-> FracMax0(ModelPredict(mdl, amount, happiness)),
               tier |-> "model", method |-> "model"]
    ELSE HeuristicResult(d, merchant, category, amount, happiness)

\* predict_regret_with_fallback: the predicted regret (cents), the method
\* label, whether an exception left the call, and the tier that answered
predict_regret_with_fallback(mdl, d, merchant, category, amount, happiness) ==
    IF mdl.trained
    THEN IF mdl.fails \/ amount.nan
         THEN \* except Exception: pass
              HeuristicResult(d, merchant, category, amount, happiness)
         ELSE [raised |-> FALSE,
               value |-> FracMax0(ModelPredict(mdl, amount, happiness)),
               tier |-> "model", method |-> "model"]
    ELSE HeuristicResult(d, merchant, category, amount, happiness)

\* ------------------------------------------------------------------ hotspots

\* the merchant and category names of the model in Python's string order
SortedNames ==
    <<"", " Dining ", " Starbucks", "Coffee", "Corner Bakery", "Dining",
      "Entertainment", "Groceries", "Health", "Other", "Shell Gas",
      "Shopping", "Starbucks", "Target Pharmacy", "Transport", "Travel",
      "Unknown", "Utilities", "nan">>

NameRank(s) == CHOOSE i \in DOMAIN SortedNames : SortedNames[i] = s

\* the names of S in ascending order, as groupby orders its groups
OrderedNames(S) ==
    LET idx == {NameRank(s) : s \in S}
    IN  [k \in 1..Cardinality(idx) |->
            SortedNames[CHOOSE i \in idx : Cardinality({j \in idx : j < i}) = k - 1]]

\* the integers of a sequence in ascending order
RECURSIVE SortInts(_)
SortInts(xs) ==
    IF xs = <<>> THEN <<>>
    ELSE LET rest == SortInts(SubSeq(xs, 1, Len(xs) - 1))
             x    == xs[Len(xs)]
             pos  == Cardinality({j \in 1..Len(rest) : rest[j] <= x})
         IN  SubSeq(rest, 1, pos) \o <<x>> \o SubSeq(rest, pos + 1, Len(rest))

\* Series.median() of integers: NaN for none, else the middle value or the
\* mean of the two middle values
Median(xs) ==
    LET s == SortInts(xs)
        n == Len(s)
    IN  IF n = 0 THEN NoFrac
        ELSE IF n % 2 = 1 THEN FracInt(s[(n + 1) \div 2])
        ELSE Frac(s[n \div 2] + s[n \div 2 + 1], 2)

\* int(x) of a fraction: truncation toward zero
FracTrunc(f) == IF f.n >= 0 THEN f.n \div f.d ELSE -((-f.n) \div f.d)

\* the |Amount| values of a group that are numbers
AmountsOf(g) ==
    LET sel == SelectSeq(g, LAMBDA r : ~r.Amount.nan)
    IN  [i \in 1..Len(sel) |-> sel[i].Amount.v]

HappinessOf(g) == [i \in 1..Len(g) |-> g[i].Happiness.v \div 10]

\* x.mode().iloc[0]: the most frequent Category, the first in string order
\* among equals
CommonCategory(g) ==
    LET cats  == {g[i].Category : i \in 1..Len(g)}
        n(c)  == Cardinality({i \in 1..Len(g) : g[i].Category = c})
        best  == {c \in cats : \A o \in cats : n(o) <= n(c)}
    IN  SortedNames[SetMin({NameRank(c) : c \in best})]

\* float(r["median_amount"] or 0.0): 0.0 stays 0.0 and NaN, being truthy, stays NaN
AmountArg(median) == IF ~median.nan /\ median.n = 0 THEN FracInt(0) ELSE median

\* one line of merchant_stats with its prediction
MerchantStat(p, mdl, m) ==
    LET g    == SelectSeq(p, LAMBDA r : r.Merchant = m)
        med  == Median(AmountsOf(g))
        cat  == CommonCategory(g)
        pred == predict_regret_with_fallback(mdl, p, m, cat, AmountArg(med),
                                             FracTrunc(Median(HappinessOf(g))))
    IN  [name |-> m, median_amount |-> med, common_category |-> cat,
         count |-> Len(g), predicted_regret |-> pred.value, method |-> pred.method]

\* one line of cat_stats with its prediction
CategoryStat(p, mdl, c) ==
    LET g    == SelectSeq(p, LAMBDA r : r.Category = c)
        med  == Median(AmountsOf(g))
        pred == predict_regret_with_fallback(mdl, p, "", c, AmountArg(med),
                                             FracTrunc(Median(HappinessOf(g))))
    IN  [name |-> c, median_amount |-> med, common_category |-> c,
         count |-> Len(g), predicted_regret |-> pred.value, method |-> pred.method]

\* the same without the sort: the first top_n groups in groupby order
TopByRegret_Unsorted(stats, top_n) == Head_n(stats, top_n)

\* sort_values("predicted_regret", ascending=False).head(top_n)
TopByRegret(stats, top_n) ==
    Head_n(SortDesc(stats, [i \in 1..Len(stats) |-> stats[i].predicted_regret]), top_n)

\* compute_hotspots: (merchant_hotspots, category_hotspots)
compute_hotspots(d, mdl, top_n) ==
    LET p     == _prepare_df(d)
        ms    == OrderedNames({p[i].Merchant : i \in 1..Len(p)})
        cs    == OrderedNames({p[i].Category : i \in 1..Len(p)})
    IN  IF p = <<>> THEN [merchants |-> <<>>, categories |-> <<>>]
        ELSE [merchants |->
                TopByRegret([k \in 1..Len(ms) |-> MerchantStat(p, mdl, ms[k])], top_n),
              categories |->
                TopByRegret([k \in 1..Len(cs) |-> CategoryStat(p, mdl, cs[k])], top_n)]

\* ------------------------------------------------------------------ utils/charting.py

\* a bar chart of the four purchases of highest Regret
top5_regret_bar_Four(d) ==
    Bind(SortPermDesc(Tuple([i \in 1..Len(d) |-> FracOf(d[i].Regret)]), Len(d)),
         LAMBDA perm :
            LET top == Head_n(perm, 4)
            IN  [idx |-> top, bars |-> [k \in 1..Len(top) |-> d[top[k]]]])

\* top5_regret_bar: the purchases the bar chart plots, as positions in df and
\* as rows, in plotting order (sort_values("Regret", ascending=False).head(5))
top5_regret_bar(d) ==
    Bind(SortPermDesc(Tuple([i \in 1..Len(d) |-> FracOf(d[i].Regret)]), Len(d)),
         LAMBDA perm :
            LET top == Head_n(perm, 5)
            IN  [idx |-> top, bars |-> [k \in 1..Len(top) |-> d[top[k]]]])

\* groupby("Category")["Regret"].sum(): one line per category in key order
\* (rows without a category are dropped), NaN regrets skipped by the sum
RegretByCategory(d) ==
    LET cs == OrderedNames({d[i].Category : i \in 1..Len(d)} \ {NA})
    IN  [k \in 1..Len(cs) |->
            LET g == SelectSeq(d, LAMBDA r : r.Category = cs[k] /\ ~r.Regret.nan)
            IN  [name |-> cs[k],
                 value |-> FracSum([i \in 1..Len(g) |-> FracInt(g[i].Regret.v)])]]

\* the placeholder pie
NoRegretData == <<[name |-> "No regret data", value |-> FracInt(1)]>>

\* pie_regret_by_category: the slices of the pie
pie_regret_by_category(d) ==
    Bind(RegretByCategory(d), LAMBDA by_cat :
        IF FracEq(FracSum([k \in 1..Len(by_cat) |-> by_cat[k].value]), FracInt(0))
        THEN NoRegretData
        ELSE by_cat)

\* ------------------------------------------------------------------ utils/generate_insight.py

\* _local_summary: the (up to) five rows of highest Regret, in that order
LocalSummary(d) ==
    [kind |-> "summary",
     rows |-> Head_n(SortDesc(d, [i \in 1..Len(d) |-> FracOf(d[i].Regret)]), 5)]

\* _local_advice: a fixed text
LocalAdvice == [kind |-> "advice", rows |-> <<>>]

Text(kind) == [kind |-> kind, rows |-> <<>>]

\* chat-completion requests one call of generate_insight issues
InsightRequests(d, gpt, e, mode) ==
    IF d # <<>> /\ LlmEnabled(gpt, e) /\ mode \in {"summary", "advice"} THEN 1 ELSE 0

\* generate_insight without the try / except around the request
generate_insight_NoExcept(d, gpt, e, mode, outcome) ==
    IF d = <<>>
    THEN [raised |-> FALSE, requests |-> InsightRequests(d, gpt, e, mode),
          text |-> Text("No spending data available.")]
    ELSE IF LlmEnabled(gpt, e)
    THEN IF mode \notin {"summary", "advice"}
         THEN [raised |-> FALSE, requests |-> InsightRequests(d, gpt, e, mode),
               text |-> Text("Invalid mode requested.")]
         ELSE IF outcome = "raise"
         THEN [raised |-> TRUE, requests |-> InsightRequests(d, gpt, e, mode),
               text |-> Text("none")]
         ELSE [raised |-> FALSE, requests |-> InsightRequests(d, gpt, e, mode),
               text |-> Text("llm")]
    ELSE [raised |-> FALSE, requests |-> InsightRequests(d, gpt, e, mode),
          text |-> IF mode = "summary" THEN LocalSummary(d)
                   ELSE IF mode = "advice" THEN LocalAdvice
                   ELSE Text("Invalid mode requested.")]

\* generate_insight: the text it returns, whether an exception left the
\* call, and the requests it issued; outcome is what the request did
generate_insight(d, gpt, e, mode, outcome) ==
    IF d = <<>>
    THEN [raised |-> FALSE, requests |-> InsightRequests(d, gpt, e, mode),
          text |-> Text("No spending data available.")]
    ELSE IF LlmEnabled(gpt, e)
    THEN IF mode \notin {"summary", "advice"}
         THEN [raised |-> FALSE, requests |-> InsightRequests(d, gpt, e, mode),
               text |-> Text("Invalid mode requested.")]
         ELSE IF outcome = "raise"
         THEN [raised |-> FALSE, requests |-> InsightRequests(d, gpt, e, mode),
               text |-> IF mode = "summary" THEN LocalSummary(d) ELSE LocalAdvice]
         ELSE [raised |-> FALSE, requests |-> InsightRequests(d, gpt, e, mode),
               text |-> Text("llm")]
    ELSE [raised |-> FALSE, requests |-> InsightRequests(d, gpt, e, mode),
          text |-> IF mode = "summary" THEN LocalSummary(d)
                   ELSE IF mode = "advice" THEN LocalAdvice
                   ELSE Text("Invalid mode requested.")]

\* ------------------------------------------------------------------ utils/peer_benchmarks.py

\* one PEER_PROFILES entry: dollars per month, regret ratio in hundredths
Peer(spend, ratio) == [avg_monthly_spend |-> spend, regret_ratio |-> ratio]

PEER_PROFILES ==
    [student |->
        [Groceries |-> Peer(150, 12), Dining |-> Peer(120, 18), Transport |-> Peer(60, 10),
         Shopping |-> Peer(80, 22), Entertainment |-> Peer(50, 15), Other |-> Peer(40, 10)],
     young_professional |->
        [Groceries |-> Peer(300, 10), Dining |-> Peer(250, 16), Transport |-> Peer(120, 8),
         Shopping |-> Peer(200, 18), Entertainment |-> Peer(100, 12), Other |-> Peer(80, 9)],
     family |->
        [Groceries |-> Peer(700, 7), Dining |-> Peer(400, 14), Transport |-> Peer(250, 9),
         Shopping |-> Peer(350, 15), Entertainment |-> Peer(200, 11), Other |-> Peer(150, 9)]]

\* a profile's monthly spend in the ledger's unit (cents), and its ratio
PeerSpend(profile, cat) == FracInt(100 * profile[cat].avg_monthly_spend)

PeerRatio(profile, cat) == Frac(profile[cat].regret_ratio, 100)

\* Series.sum() of float cells: NaN cells are skipped
SumCells(cells) ==
    LET cs == Tuple(cells)
    IN  FracSum([i \in 1..Len(cs) |-> IF cs[i].nan THEN FracInt(0) ELSE FracInt(cs[i].v)])

\* groupby(dropna=False) on the month: undated rows kept
Grouped_KeepsUndated(d, has_date) == SelectSeq(d, LAMBDA r : r.Category # NA)

\* the rows groupby keeps: a month (with a Date column) and a Category
Grouped(d, has_date) ==
    SelectSeq(d, LAMBDA r : r.Category # NA /\ (has_date => r.Date # NaT))

\* dt.to_period("M"); without a Date column the whole ledger is one month
MonthOf(r, has_date) == IF has_date THEN <<r.Date.y, r.Date.m>> ELSE <<0, 0>>

\* one line of `monthly`: a category's Amount sum and Regret sum in a month
MonthlyRow(g, has_date, month) ==
    LET rs == SelectSeq(g, LAMBDA r : MonthOf(r, has_date) = month)
    IN  [month_spend  |-> SumCells([i \in 1..Len(rs) |-> rs[i].Amount]),
         month_regret |-> SumCells([i \in 1..Len(rs) |-> rs[i].Regret])]

\* _user_category_stats, one category: the mean over its months of the
\* month's Amount sum and Regret sum, and their quotient (NaN for spend 0)
UserCategoryStat(d, has_date, cat) ==
    LET g       == SelectSeq(Grouped(d, has_date), LAMBDA r : r.Category = cat)
        months  == {MonthOf(g[i], has_date) : i \in 1..Len(g)}
        mseq    == CHOOSE s \in [1..Cardinality(months) -> months] : Range(s) = months
        monthly == Tuple([k \in 1..Len(mseq) |-> MonthlyRow(g, has_date, mseq[k])])
        spend   == FracMean(Tuple([k \in 1..Len(monthly) |-> monthly[k].month_spend]))
        regret  == FracMean(Tuple([k \in 1..Len(monthly) |-> monthly[k].month_regret]))
    IN  [Category |-> cat, avg_monthly_spend |-> spend, avg_monthly_regret |-> regret,
         user_regret_ratio |-> IF spend.n = 0 THEN NoFrac ELSE FracDiv(regret, spend)]

\* the categories _user_category_stats returns a line for
UserCategories(d, has_date) ==
    LET g == Grouped(d, has_date)
    IN  {g[i].Category : i \in 1..Len(g)}

\* one line of the comparison table
CompareRow(d, has_date, profile, cat) ==
    LET mine        == cat \in UserCategories(d, has_date)
        theirs      == cat \in DOMAIN profile
        stat        == UserCategoryStat(d, has_date, cat)
        user_spend  == IF mine THEN stat.avg_monthly_spend ELSE FracInt(0)
        user_ratio  == IF mine THEN stat.user_regret_ratio ELSE NoFrac
        peer_spend  == IF theirs THEN PeerSpend(profile, cat) ELSE FracInt(0)
        peer_ratio  == IF theirs THEN PeerRatio(profile, cat) ELSE NoFrac
    IN  [Category |-> cat,
         user_avg_monthly_spend |-> user_spend,
         peer_avg_monthly_spend |-> peer_spend,
         pct_diff_spend |->
            IF peer_spend.n # 0
            THEN FracMul(FracDiv(FracSub(user_spend, peer_spend), peer_spend), FracInt(100))
            ELSE NoFrac,
         user_regret_ratio |-> user_ratio,
         peer_regret_ratio |-> peer_ratio,
         pct_diff_regret_ratio |->
            IF ~peer_ratio.nan /\ peer_ratio.n # 0 /\ ~user_ratio.nan
            THEN FracMul(FracDiv(FracSub(user_ratio, peer_ratio), peer_ratio), FracInt(100))
            ELSE NoFrac]

\* the sentences built from the sorted table, as (kind, category) pairs
SentencesOf(comp) ==
    LET Spend(r) ==
            IF r.peer_avg_monthly_spend.n # 0 /\ r.user_avg_monthly_spend.n # 0
            THEN IF FracLt(FracInt(20), r.pct_diff_spend)
                 THEN << <<"spend more", r.Category>> >>
                 ELSE IF FracLt(r.pct_diff_spend, FracInt(-20))
                 THEN << <<"spend less", r.Category>> >>
                 ELSE <<>>
            ELSE <<>>
        Regret(r) ==
            IF FracLt(FracInt(30), r.pct_diff_regret_ratio)
            THEN << <<"regret more", r.Category>> >>
            ELSE IF FracLt(r.pct_diff_regret_ratio, FracInt(-30))
            THEN << <<"regret less", r.Category>> >>
            ELSE <<>>
        RECURSIVE Upto(_)
        Upto(k) == IF k = 0 THEN <<>>
                   ELSE Upto(k - 1) \o Spend(comp[k]) \o Regret(comp[k])
        all == Upto(Len(comp))
    IN  IF all = <<>> THEN << <<"similar", "">> >> ELSE all

\* the order in which the set of categories is iterated: ascending or
\* descending by name (Python fixes no order for a set of strings)
SetOrders == {"ascending", "descending"}

IterationOrder(S, order) ==
    LET asc == OrderedNames(S)
    IN  IF order = "ascending" THEN asc
        ELSE [i \in 1..Len(asc) |-> asc[Len(asc) + 1 - i]]

\* compare_to_peer_profile for a known profile: the table and the sentences
compare_to_peer_profile(d, has_date, profile_name, order) ==
    LET profile == PEER_PROFILES[profile_name]
        cats    == IterationOrder(UserCategories(d, has_date) \cup DOMAIN profile, order)
    IN  Bind(Tuple([i \in 1..Len(cats) |-> CompareRow(d, has_date, profile, cats[i])]),
             LAMBDA rows :
                Bind(SortDesc(rows, [i \in 1..Len(rows) |-> rows[i].user_avg_monthly_spend]),
                     LAMBDA comp_df : [comp_df |-> comp_df, sentences |-> SentencesOf(comp_df)]))

\* ------------------------------------------------------------------ the script run

\* the process environments: OPENAI_API_KEY set or not, openai importable or not
Envs == { [key |-> TRUE, lib |-> TRUE], [key |-> FALSE, lib |-> TRUE],
          [key |-> TRUE, lib |-> FALSE] }

\* the environments the script is run in
RunEnvs == { [key |-> TRUE, lib |-> TRUE], [key |-> FALSE, lib |-> TRUE] }

\* no chat-completion request was made
NoReply == [kind |-> "none", items |-> <<>>]

\* what the chat-completion API may do on the categorization request of a run
RunReplies ==
    { [kind |-> "raise", items |-> <<>>],
      [kind |-> "items", items |-> << [merchant |-> "Starbucks", category |-> "Coffee"] >>],
      [kind |-> "items", items |-> << [merchant |-> "Shell Gas", category |-> NA] >>] }

\* nothing shown
NoText == [kind |-> "none", rows |-> <<>>]

NoWhatIf ==
    [shown |-> FALSE, use_model |-> FALSE, amount |-> 0, pred |-> FracInt(0),
     method |-> "none",
     pct |-> FracInt(0), pct_text |-> 0, level |-> "none", advice |-> "none"]

NoHotspots == [merchants |-> <<>>, categories |-> <<>>]

\* compute_hotspots(df, model=model, top_n=6) in app.py
TopN == 6

\* the amounts (cents) and happiness values tried in the what-if form
WhatIfAmounts == {0, 10}

WhatIfHappiness == {1, 2, 5}

\* the non-missing values of a column, with "" in front (the selectbox options)
Options(d, field) ==
    {""} \cup ({ IF field = "Merchant" THEN d[i].Merchant ELSE d[i].Category :
                  i \in 1..Len(d) } \ {NA})

\* the risk meter of the what-if simulator (app.py 184-200)
RiskLevel(pct) ==
    IF FracLe(FracInt(60), pct) THEN "High"
    ELSE IF FracLe(FracInt(25), pct) THEN "Medium"
    ELSE "Low"

\* the advice with "more than 60" for the warning
RiskAdvice_Above60(pct) ==
    IF FracLt(FracInt(60), pct) THEN "warning"
    ELSE IF FracLe(FracInt(25), pct) THEN "info"
    ELSE "success"

RiskAdvice(pct) ==
    IF FracLe(FracInt(60), pct) THEN "warning"
    ELSE IF FracLe(FracInt(25), pct) THEN "info"
    ELSE "success"

\* pct = (pred_regret / m_amount * 100.0) if m_amount > 0 else 0.0
Percent(pred, amount) ==
    IF amount > 0 THEN FracMul(FracDiv(pred, FracInt(amount)), FracInt(100))
    ELSE FracInt(0)

NoPeers == [shown |-> FALSE, profile |-> "none", comp_df |-> <<>>, sentences |-> <<>>]

NoCsv == [written |-> FALSE, header |-> <<>>, lines |-> <<>>]

NoSmtp == [filled |-> {}, outcome |-> "none", log |-> <<>>, attachment |-> NoCsv]

\* no library function is called directly during a script run
NoCall == [fn |-> "none"]

NoRet == [fn |-> "none"]

\* nothing of a script run exists yet
NothingShown ==
    /\ use_gpt = FALSE
    /\ uploaded = NoFile
    /\ edited = <<>>
    /\ df_sorted = <<>>
    /\ model = NoModel
    /\ summary = NoText
    /\ whatif = NoWhatIf
    /\ hotspots = NoHotspots
    /\ clicked = "none"
    /\ steps = {}
    /\ msgs = {}
    /\ requests = 0
    /\ peers = NoPeers
    /\ csv_bytes = NoCsv
    /\ smtp = NoSmtp

RunInit ==
    /\ pc = "start"
    /\ df = <<>>
    /\ NothingShown

Init ==
    /\ env \in RunEnvs
    /\ RunInit
    /\ call = NoCall
    /\ ret = NoRet
    /\ prev = FALSE

\* app.py 46-74 without the st.stop() of the no-table branch
LoadOrStop_NoStop(table) ==
    IF ~table.present
    THEN /\ msgs' = {"info: upload a CSV or use sample data"}
         /\ pc' = "loaded"
         /\ df' = df
    ELSE IF ~HasExpected(table.header)
    THEN /\ msgs' = {"error: CSV must contain Date, Merchant, Amount"}
         /\ pc' = "stopped"
         /\ df' = df
    ELSE /\ msgs' = msgs
         /\ pc' = "loaded"
         /\ df' = load_transactions(table)

\* app.py 46-74: without a table, or without the three columns, a message
\* and st.stop(); else the ledger is loaded
LoadOrStop(table) ==
    IF ~table.present
    THEN /\ msgs' = {"info: upload a CSV or use sample data"}
         /\ pc' = "stopped"
         /\ df' = df
    ELSE IF ~HasExpected(table.header)
    THEN /\ msgs' = {"error: CSV must contain Date, Merchant, Amount"}
         /\ pc' = "stopped"
         /\ df' = df
    ELSE /\ msgs' = msgs
         /\ pc' = "loaded"
         /\ df' = load_transactions(table)

\* app.py 26-76: the sidebar, the uploader, the sample button, load_transactions
Upload ==
    /\ pc = "start"
    /\ \E gpt \in BOOLEAN, pressed \in BOOLEAN, file \in {NoFile} \cup CsvFiles :
        LET table == IF file.present THEN file
                     ELSE IF pressed THEN SampleFile ELSE NoFile
        IN  /\ ~(file.present /\ pressed)    \* the button is drawn only without a file
            /\ use_gpt' = gpt
            /\ uploaded' = table
            /\ clicked' = IF pressed THEN "sample" ELSE "none"
            /\ LoadOrStop(table)
    /\ UNCHANGED <<env, edited, df_sorted, model, summary, whatif, hotspots, steps, requests>>
    /\ UNCHANGED <<peers, csv_bytes, smtp, call, ret, prev>>

\* app.py 78-90: the editor, then Happiness and Regret
EditValidate ==
    /\ pc = "loaded"
    /\ \E out \in EditorOutputs(df) :
        /\ edited' = out
        /\ IF ValidateRaises(out)
           THEN /\ pc' = "aborted"
                /\ UNCHANGED <<df, steps>>
           ELSE /\ pc' = "tab2"
                /\ df' = Validate(out)
                /\ steps' = steps \cup {"regret"}
    /\ UNCHANGED <<env, use_gpt, uploaded, df_sorted, model, summary, whatif, hotspots,
                   clicked, msgs, requests>>
    /\ UNCHANGED <<peers, csv_bytes, smtp, call, ret, prev>>

\* df.sort_values("Regret", ascending=False).reset_index(drop=True)
SortByRegret(d) == SortDesc(d, [i \in 1..Len(d) |-> FracOf(d[i].Regret)])

\* app.py 95-121: the Auto-categorize button, then the ranked table
Tab2 ==
    /\ pc = "tab2"
    /\ \E pressed \in BOOLEAN, reply \in {NoReply} \cup RunReplies :
        LET res == categorize_transactions(df, use_gpt, env, reply)
        IN  /\ pressed => clicked = "none"
            /\ reply # NoReply <=> (pressed /\ LlmEnabled(use_gpt, env))
            /\ IF pressed
               THEN /\ clicked' = "categorize"
                    /\ df' = res.rows
                    /\ requests' = requests + res.requests
                    /\ steps' = steps \cup {"categorize"}
                                      \cup (IF res.requests > 0 THEN {"llm"} ELSE {})
                    /\ msgs' = msgs \cup {"success: auto-categorized (or fallback used)"}
               ELSE UNCHANGED <<clicked, df, requests, steps, msgs>>
            /\ df_sorted' = SortByRegret(df')
    /\ pc' = "tab3"
    /\ UNCHANGED <<env, use_gpt, uploaded, edited, model, summary, whatif, hotspots>>
    /\ UNCHANGED <<peers, csv_bytes, smtp, call, ret, prev>>

\* app.py 150-156: train_regret_model(df, min_samples=30), not guarded
Train ==
    /\ pc = "tab3"
    /\ \E fit_fails \in BOOLEAN, fitted \in Models :
        /\ steps' = steps \cup {"train"}
        /\ IF TrainRaises(df, MinSamples, fit_fails)
           THEN /\ pc' = "aborted"
                /\ UNCHANGED <<model, msgs>>
           ELSE /\ pc' = "summary"
                /\ model' = train_regret_model(df, MinSamples, fitted)
                /\ msgs' = msgs \cup {IF model'.trained
                                      THEN "info: local regret model trained"
                                      ELSE "info: not enough data, using heuristic predictions"}
    /\ UNCHANGED <<env, use_gpt, uploaded, edited, df, df_sorted, summary, whatif,
                   hotspots, clicked, requests>>
    /\ UNCHANGED <<peers, csv_bytes, smtp, call, ret, prev>>

\* app.py 163-170: the quick summary
Summary ==
    /\ pc = "summary"
    /\ \E outcome \in {"none", "ok", "raise"} :
        LET res == generate_insight(df, use_gpt, env, "summary", outcome)
        IN  /\ outcome # "none" <=> res.requests > 0
            /\ summary' = IF res.raised THEN Text("Summary currently unavailable.")
                          ELSE res.text
            /\ requests' = requests + res.requests
            /\ steps' = steps \cup (IF res.requests > 0 THEN {"llm"} ELSE {})
    /\ pc' = "whatif"
    /\ UNCHANGED <<env, use_gpt, uploaded, edited, df, df_sorted, model, whatif,
                   hotspots, clicked, msgs>>
    /\ UNCHANGED <<peers, csv_bytes, smtp, call, ret, prev>>

\* app.py 172-200: the what-if form
WhatIf ==
    /\ pc = "whatif"
    /\ \/ /\ UNCHANGED <<whatif, clicked>>
          /\ pc' = "hotspots"
       \/ /\ clicked = "none"
          /\ \E m_merchant \in Options(df, "Merchant"), m_category \in {""},
                m_amount \in WhatIfAmounts, m_happiness \in WhatIfHappiness,
                use_model_checkbox \in BOOLEAN :
              LET model_to_use == IF use_model_checkbox THEN model ELSE NoModel
                  res == predict_regret_with_fallback(model_to_use, df, m_merchant,
                             m_category, FracInt(m_amount), m_happiness)
                  pct == Percent(res.value, m_amount)
              IN  IF res.raised
                  THEN /\ pc' = "aborted"
                       /\ UNCHANGED whatif
                  ELSE /\ pc' = "hotspots"
                       /\ whatif' = [shown |-> TRUE, use_model |-> use_model_checkbox,
                                     amount |-> m_amount,
                                     pred |-> res.value, method |-> res.method,
                                     pct |-> pct,
                                     pct_text |-> RoundHalfEven(pct.n, pct.d),
                                     level |-> RiskLevel(pct),
                                     advice |-> RiskAdvice(pct)]
          /\ clicked' = "predict"
    /\ UNCHANGED <<env, use_gpt, uploaded, edited, df, df_sorted, model, summary,
                   hotspots, steps, msgs, requests>>
    /\ UNCHANGED <<peers, csv_bytes, smtp, call, ret, prev>>

\* app.py 202-220: the hotspots panel
Hotspots ==
    /\ pc = "hotspots"
    /\ hotspots' = compute_hotspots(df, model, TopN)
    /\ msgs' = msgs \cup (IF hotspots'.merchants = <<>>
                          THEN {"info: not enough data to compute hotspots"} ELSE {})
    /\ pc' = "peers"
    /\ UNCHANGED <<env, use_gpt, uploaded, edited, df, df_sorted, model, summary,
                   whatif, clicked, steps, requests>>
    /\ UNCHANGED <<peers, csv_bytes, smtp, call, ret, prev>>

\* app.py 225-250: the peer comparison
Peers ==
    /\ pc = "peers"
    /\ \/ UNCHANGED <<peers, clicked>>
       \/ /\ clicked = "none"
          /\ \E sel_profile \in DOMAIN PEER_PROFILES, order \in SetOrders :
              LET res == compare_to_peer_profile(df, TRUE, sel_profile, order)
              IN  peers' = [shown |-> TRUE, profile |-> sel_profile,
                            comp_df |-> res.comp_df, sentences |-> res.sentences]
          /\ clicked' = "compare"
    /\ pc' = "tab4"
    /\ UNCHANGED <<env, use_gpt, uploaded, edited, df, df_sorted, model, summary,
                   whatif, hotspots, steps, msgs, requests, csv_bytes, smtp, call,
                   ret, prev>>

\* a cell as to_csv writes it: a missing value becomes the empty cell
CsvCell(x, missing) == [empty |-> x = missing, v |-> x]

\* one row as to_csv writes it
CsvLine(r) ==
    [Date |-> CsvCell(r.Date, NaT), Merchant |-> CsvCell(r.Merchant, NA),
     Amount |-> CsvCell(r.Amount, NaN), Category |-> CsvCell(r.Category, NA),
     Happiness |-> r.Happiness.v \div 10, Regret |-> CsvCell(r.Regret, NaN),
     extra |-> r.extra]

\* a CSV of the rows that have a Regret only
ToCsv_RatedOnly(d, header) ==
    LET cols  == Columns(header) \o <<"Category", "Happiness", "Regret">>
        rated == SelectSeq(d, LAMBDA r : ~r.Regret.nan)
    IN  [written |-> TRUE, header |-> cols,
         lines |-> [i \in 1..Len(rated) |-> CsvLine(rated[i])]]

\* DataFrame.to_csv(index=False): the column names, then one line per row
\* in the frame's order
ToCsv(d, header) ==
    LET cols == Columns(header) \o <<"Category", "Happiness", "Regret">>
    IN  [written |-> TRUE, header |-> cols,
         lines |-> [i \in 1..Len(d) |-> CsvLine(d[i])]]

\* the form fields of the e-mail expander that are filled in
Fields == {"host", "user", "password", "to"}

\* none filled in, one left empty, all filled in
FieldSets == {F \in SUBSET Fields : Cardinality(F) \in {0, 3, 4}}

\* what the SMTP server may do: accept everything, or fail at one step
SmtpOutcomes == {"ok", "connect", "starttls", "login", "send_message"}

SmtpSteps == <<"connect", "starttls", "login", "send_message">>

\* every SMTP call made whatever an earlier one did
SmtpLog_GoesOn(outcome) == SmtpSteps

\* the SMTP calls made until the failing step (inclusive)
SmtpLog(outcome) ==
    LET all == SmtpSteps
        last == IF outcome = "ok" THEN Len(all)
                ELSE CHOOSE i \in DOMAIN all : all[i] = outcome
    IN  SubSeq(all, 1, last)

\* app.py 257-291: the export, and the "Send email" handler
Tab4 ==
    /\ pc = "tab4"
    /\ csv_bytes' = ToCsv(df_sorted, uploaded.header)
    /\ \/ /\ UNCHANGED <<smtp, clicked, msgs>>
          /\ steps' = steps \cup {"export"}
       \/ /\ clicked = "none"
          /\ clicked' = "send"
          /\ \E filled \in FieldSets, outcome \in SmtpOutcomes :
              IF filled # Fields
              THEN /\ outcome = "ok"
                   /\ msgs' = msgs \cup {"error: fill SMTP host, username, password and recipient"}
                   /\ steps' = steps \cup {"export"}
                   /\ smtp' = [NoSmtp EXCEPT !.filled = filled]
              ELSE /\ smtp' = [filled |-> filled, outcome |-> outcome,
                               log |-> SmtpLog(outcome), attachment |-> csv_bytes']
                   /\ steps' = steps \cup {"export", "email"}
                   /\ msgs' = msgs \cup {IF outcome = "ok" THEN "success: Email sent!"
                                          ELSE "error: Failed to send email"}
    /\ pc' = "done"
    /\ UNCHANGED <<env, use_gpt, uploaded, edited, df, df_sorted, model, summary,
                   whatif, hotspots, requests, peers, call, ret, prev>>

\* a rerun that keeps the ledger, its categories and the model
Rerun_KeepsLedger ==
    /\ pc \in {"stopped", "aborted", "done"}
    /\ pc' = "start"
    /\ use_gpt' = FALSE
    /\ uploaded' = NoFile
    /\ edited' = <<>>
    /\ df' = df
    /\ df_sorted' = <<>>
    /\ model' = model
    /\ summary' = NoText
    /\ whatif' = NoWhatIf
    /\ hotspots' = NoHotspots
    /\ clicked' = "none"
    /\ steps' = {}
    /\ msgs' = {}
    /\ requests' = 0
    /\ peers' = NoPeers
    /\ csv_bytes' = NoCsv
    /\ smtp' = NoSmtp
    /\ prev' = (clicked = "categorize" /\ model.trained)
    /\ UNCHANGED <<env, call, ret>>

\* a widget interaction starts the script again from the top
Rerun ==
    /\ pc \in {"stopped", "aborted", "done"}
    /\ pc' = "start"
    /\ use_gpt' = FALSE
    /\ uploaded' = NoFile
    /\ edited' = <<>>
    /\ df' = <<>>
    /\ df_sorted' = <<>>
    /\ model' = NoModel
    /\ summary' = NoText
    /\ whatif' = NoWhatIf
    /\ hotspots' = NoHotspots
    /\ clicked' = "none"
    /\ steps' = {}
    /\ msgs' = {}
    /\ requests' = 0
    /\ peers' = NoPeers
    /\ csv_bytes' = NoCsv
    /\ smtp' = NoSmtp
    /\ prev' = (clicked = "categorize" /\ model.trained)
    /\ UNCHANGED <<env, call, ret>>

Next ==
    Upload \/ EditValidate \/ Tab2 \/ Train \/ Summary \/ WhatIf \/ Hotspots \/ Peers
    \/ Tab4 \/ Rerun

Spec == Init /\ [][Next]_vars

\* ------------------------------------------------------------------ properties of the script run

\* the upload step has validated Happiness and computed Regret
Validated == "regret" \in steps

\* C1: after the upload step, every row with a numeric Amount has an integer
\* Happiness in 1..5 (3 for a missing or non-numeric cell, the nearer end of
\* the range for a value outside it) and a Regret that is |Amount| x
\* (1 - Happiness/5) rounded to the cent, hence Regret >= 0, and Regret = 0
\* when Happiness = 5.
C1_HappinessAndRegret ==
    Validated =>
        /\ Len(df) = Len(edited)
        /\ \A i \in 1..Len(df) :
              ~df[i].Amount.nan =>
                 LET raw == edited[i].Happiness
                     h   == df[i].Happiness.v \div 10
                     a   == Abs(df[i].Amount.v)
                     reg == df[i].Regret
                 IN  /\ df[i].Happiness.k = "num"
                     /\ df[i].Happiness.v \in {10, 20, 30, 40, 50}
                     /\ raw.k \in {"nan", "text"} => h = 3
                     /\ (raw.k = "num" /\ raw.v < 10) => h = 1
                     /\ (raw.k = "num" /\ raw.v > 50) => h = 5
                     /\ (raw.k = "num" /\ raw.v \in 10..50) => 10 * h <= raw.v /\ raw.v < 10 * h + 10
                     /\ ~reg.nan
                     /\ 2 * Abs(5 * reg.v - a * (5 - h)) <= 5
                     /\ reg.v >= 0
                     /\ h = 5 => reg.v = 0

\* a validated ledger whose first row had Happiness 9 typed in (clipped to 5,
\* Regret 0) and whose second row kept the placeholder 3 with a Regret above 0
C1_Witness ==
    /\ Validated
    /\ Len(df) >= 2
    /\ edited[1].Happiness = HapNum(90)
    /\ df[1].Happiness = HapNum(50)
    /\ ~df[1].Amount.nan /\ df[1].Amount.v # 0 /\ df[1].Regret = Num(0)
    /\ df[2].Happiness = HapNum(30)
    /\ ~df[2].Amount.nan /\ df[2].Regret.v > 0

\* a column name of an uploaded table, trimmed and in lower case
TrimmedLower == [c \in HeaderNames |-> LowerChars(StripChars(Chars[c]))]

\* the uploaded table names the column (case-insensitively, trimmed)
HasColumn(name) ==
    \E j \in DOMAIN uploaded.header : TrimmedLower[uploaded.header[j]] = Chars[name]

\* something of regret computation, categorization, training, LLM calls,
\* export or e-mail has happened in this run
SomeStepReached ==
    steps # {} \/ requests > 0 \/ csv_bytes.written \/ smtp.log # <<>>

\* C9: a run reaches regret computation, categorization, training, LLM calls,
\* export and e-mail only if a table was supplied (a file, or the sample
\* button pressed in this run) with the columns date, merchant and amount;
\* otherwise it shows a message and stops before any of those steps.
C9_StepsNeedTable ==
    /\ SomeStepReached =>
          /\ uploaded.present
          /\ uploaded.source = "sample" => clicked = "sample"
          /\ HasColumn("date") /\ HasColumn("merchant") /\ HasColumn("amount")
    /\ (pc # "start" /\ ~( /\ uploaded.present
                           /\ HasColumn("date") /\ HasColumn("merchant")
                           /\ HasColumn("amount") )) =>
          /\ pc = "stopped"
          /\ msgs # {}
          /\ ~SomeStepReached

\* a run on an uploaded file with the columns " date", "MERCHANT ", "amount"
\* that reached regret computation, training, an LLM call, export and e-mail
C9_Witness ==
    /\ pc = "done"
    /\ uploaded.source = "file"
    /\ uploaded.header[1] = " date"
    /\ {"regret", "train", "llm", "export", "email"} \subseteq steps

\* C4: a failure of training (fitting or cross-validating raises) does not
\* abort the script run: the step that trains never ends the run.
C4_TrainFailureHandled == [][pc = "tab3" => pc' # "aborted"]_vars

\* the predictions the hotspot tables show
HotspotMethods ==
    {hotspots.merchants[i].method : i \in 1..Len(hotspots.merchants)}
    \cup {hotspots.categories[i].method : i \in 1..Len(hotspots.categories)}

\* C5: with fewer than min_samples (30) rows train_regret_model returns no
\* model and the run goes on; the what-if prediction and every merchant and
\* category hotspot of such a run have method "heuristic", whatever the
\* "Use trained model" checkbox.
C5_FewRowsHeuristic ==
    ("train" \in steps /\ Len(df) < MinSamples) =>
        /\ pc # "aborted"
        /\ pc # "tab3" => /\ model = NoModel
                          /\ "info: not enough data, using heuristic predictions" \in msgs
        /\ whatif.shown => whatif.method = "heuristic"
        /\ HotspotMethods \subseteq {"heuristic"}

\* a run on 29 rows in which the what-if form was submitted with the
\* checkbox ticked and the hotspot tables were filled
C5_Witness ==
    /\ Len(df) = MinSamples - 1
    /\ "train" \in steps
    /\ whatif.shown /\ whatif.use_model
    /\ hotspots.merchants # <<>> /\ hotspots.categories # <<>>

\* ------------------------------------------------------------------ the library, called directly

\* rows of the ledgers handed to the library functions
LibRows ==
    { Row([y |-> 2024, m |-> 1, d |-> 5], "Starbucks", Num(1000), "Dining",
          HapNum(10), Num(800), <<>>),
      Row([y |-> 2024, m |-> 2, d |-> 10], "Starbucks", Num(3000), "Dining",
          HapNum(50), Num(0), <<>>),
      Row(NaT, "Shell Gas", NaN, "Coffee", HapNum(30), NaN, <<>>),
      Row([y |-> 2024, m |-> 1, d |-> 5], NA, Num(0), NA, HapNum(30), Num(0), <<>>),
      Row([y |-> 2024, m |-> 1, d |-> 5], " Starbucks", Num(-2500), "Coffee",
          HapNum(30), Num(1000), <<>>),
      Row([y |-> 2024, m |-> 2, d |-> 10], "Target Pharmacy", Num(15000), "Shopping",
          HapNum(20), Num(9000), <<>>) }

LibLedgers == SeqsUpTo(LibRows, MaxLedger)

\* what the chat-completion API may do on a categorization request
LibReplies ==
    { [kind |-> "raise", items |-> <<>>],
      [kind |-> "nojson", items |-> <<>>],
      [kind |-> "badjson", items |-> <<>>],
      [kind |-> "items", items |-> << [merchant |-> "Starbucks", category |-> "Transport"],
                                      [merchant |-> "Shell Gas", category |-> NA] >>],
      [kind |-> "items", items |-> << [merchant |-> "Starbucks", category |-> "Coffee"] >>],
      [kind |-> "items", items |-> << [merchant |-> " Starbucks", category |-> "Transport"] >>],
      [kind |-> "items", items |-> << [merchant |-> " Starbucks", category |-> " Dining "],
                                      [merchant |-> "Shell Gas", category |-> "Transport"] >>] }

LibMerchants == {"", "Starbucks", "Corner Bakery"}

LibCategories == {"", "Dining", "Other"}

LibAmounts == {FracInt(0), FracInt(1000), NoFrac}

LibHappiness == {1, 5}

LibModels == {NoModel, Model(TRUE, 0, 0), Model(FALSE, 0, -5), Model(FALSE, 1, 0)}

LibMinSamples == {1, 2, MinSamples}

\* ledgers of ChartLen rows, more than a bar chart plots: rows of regret
\* 8.00 and 90.00 in turn, and one row of regret 0 or without a regret
LibChartRows ==
    << Row([y |-> 2024, m |-> 1, d |-> 5], "Starbucks", Num(1000), "Dining",
           HapNum(10), Num(800), <<>>),
       Row([y |-> 2024, m |-> 2, d |-> 10], "Target Pharmacy", Num(15000), "Shopping",
           HapNum(20), Num(9000), <<>>),
       Row([y |-> 2024, m |-> 2, d |-> 10], "Starbucks", Num(3000), "Dining",
           HapNum(50), Num(0), <<>>),
       Row(NaT, "Shell Gas", NaN, "Coffee", HapNum(30), NaN, <<>>) >>

LibChartLedgers ==
    { [i \in 1..ChartLen |-> IF i = k THEN LibChartRows[low]
                             ELSE LibChartRows[(i % 2) + 1]] :
         k \in 1..ChartLen, low \in {3, 4} }

LibInit ==
    /\ pc = "lib"
    /\ env = [key |-> TRUE, lib |-> TRUE]
    /\ df \in LibLedgers \cup LibChartLedgers
    /\ NothingShown
    /\ call = NoCall
    /\ ret = NoRet
    /\ prev = FALSE

\* predict_regret_with_fallback(model, df, merchant, category, amount, happiness)
CallPredict ==
    /\ pc = "lib"
    /\ \E mdl \in LibModels, merchant \in LibMerchants, category \in LibCategories,
          amount \in LibAmounts, happiness \in LibHappiness :
        /\ call' = [fn |-> "predict_regret_with_fallback", model |-> mdl,
                    merchant |-> merchant, category |-> category, amount |-> amount,
                    happiness |-> happiness]
        /\ ret' = predict_regret_with_fallback(mdl, df, merchant, category, amount,
                                               happiness)
    /\ pc' = "returned"
    /\ UNCHANGED <<env, use_gpt, uploaded, edited, df, df_sorted, model, summary,
                   whatif, hotspots, clicked, steps, msgs, requests, peers, csv_bytes,
                   smtp, prev>>

\* heuristic_predict(df, merchant, category, amount, happiness) on a prepared ledger
CallHeuristic ==
    /\ pc = "lib"
    /\ \E merchant \in LibMerchants, category \in LibCategories,
          amount \in LibAmounts, happiness \in LibHappiness :
        /\ call' = [fn |-> "heuristic_predict", merchant |-> merchant,
                    category |-> category, amount |-> amount, happiness |-> happiness]
        /\ ret' = heuristic_predict(df, merchant, category, amount, happiness)
    /\ pc' = "returned"
    /\ UNCHANGED <<env, use_gpt, uploaded, edited, df, df_sorted, model, summary,
                   whatif, hotspots, clicked, steps, msgs, requests, peers, csv_bytes,
                   smtp, prev>>

\* train_regret_model(df, min_samples)
CallTrain ==
    /\ pc = "lib"
    /\ \E min_samples \in LibMinSamples, fit_fails \in BOOLEAN, fitted \in LibModels :
        /\ fitted.trained
        /\ call' = [fn |-> "train_regret_model", min_samples |-> min_samples]
        /\ ret' = IF TrainRaises(df, min_samples, fit_fails)
                  THEN [raised |-> TRUE, model |-> NoModel]
                  ELSE [raised |-> FALSE,
                        model |-> train_regret_model(df, min_samples, fitted)]
    /\ pc' = "returned"
    /\ UNCHANGED <<env, use_gpt, uploaded, edited, df, df_sorted, model, summary,
                   whatif, hotspots, clicked, steps, msgs, requests, peers, csv_bytes,
                   smtp, prev>>

\* categorize_transactions(df, use_gpt) in some environment
CallCategorize ==
    /\ pc = "lib"
    /\ \E e \in Envs, gpt \in BOOLEAN, reply \in {NoReply} \cup LibReplies :
        /\ reply # NoReply <=> LlmEnabled(gpt, e)
        /\ env' = e
        /\ call' = [fn |-> "categorize_transactions", use_gpt |-> gpt, reply |-> reply]
        /\ ret' = categorize_transactions(df, gpt, e, reply)
    /\ pc' = "returned"
    /\ UNCHANGED <<use_gpt, uploaded, edited, df, df_sorted, model, summary,
                   whatif, hotspots, clicked, steps, msgs, requests, peers, csv_bytes,
                   smtp, prev>>

\* generate_insight(df, use_gpt, mode) in some environment
CallInsight ==
    /\ pc = "lib"
    /\ \E e \in Envs, gpt \in BOOLEAN, mode \in {"summary", "advice", "other"},
          outcome \in {"none", "ok", "raise"} :
        LET res == generate_insight(df, gpt, e, mode, outcome)
        IN  /\ outcome # "none" <=> res.requests > 0
            /\ env' = e
            /\ call' = [fn |-> "generate_insight", use_gpt |-> gpt, mode |-> mode,
                        outcome |-> outcome]
            /\ ret' = res
    /\ pc' = "returned"
    /\ UNCHANGED <<use_gpt, uploaded, edited, df, df_sorted, model, summary,
                   whatif, hotspots, clicked, steps, msgs, requests, peers, csv_bytes,
                   smtp, prev>>

\* compare_to_peer_profile(df, profile_name), df with or without a Date column
CallCompare ==
    /\ pc = "lib"
    /\ \E has_date \in BOOLEAN, profile_name \in DOMAIN PEER_PROFILES,
          order \in SetOrders :
        /\ call' = [fn |-> "compare_to_peer_profile", has_date |-> has_date,
                    profile_name |-> profile_name]
        /\ ret' = compare_to_peer_profile(df, has_date, profile_name, order)
    /\ pc' = "returned"
    /\ UNCHANGED <<env, use_gpt, uploaded, edited, df, df_sorted, model, summary,
                   whatif, hotspots, clicked, steps, msgs, requests, peers, csv_bytes,
                   smtp, prev>>

\* the top_n values compute_hotspots is called with
LibTopN == {1, 2, TopN}

\* compute_hotspots(df, model, top_n)
CallHotspots ==
    /\ pc = "lib"
    /\ \E mdl \in LibModels, top_n \in LibTopN :
        /\ call' = [fn |-> "compute_hotspots", model |-> mdl, top_n |-> top_n]
        /\ ret' = compute_hotspots(df, mdl, top_n)
    /\ pc' = "returned"
    /\ UNCHANGED <<env, use_gpt, uploaded, edited, df, df_sorted, model, summary,
                   whatif, hotspots, clicked, steps, msgs, requests, peers, csv_bytes,
                   smtp, prev>>

\* top5_regret_bar(df)
CallTop5 ==
    /\ pc = "lib"
    /\ call' = [fn |-> "top5_regret_bar"]
    /\ ret' = top5_regret_bar(df)
    /\ pc' = "returned"
    /\ UNCHANGED <<env, use_gpt, uploaded, edited, df, df_sorted, model, summary,
                   whatif, hotspots, clicked, steps, msgs, requests, peers, csv_bytes,
                   smtp, prev>>

\* pie_regret_by_category(df)
CallPie ==
    /\ pc = "lib"
    /\ call' = [fn |-> "pie_regret_by_category"]
    /\ ret' = [slices |-> pie_regret_by_category(df)]
    /\ pc' = "returned"
    /\ UNCHANGED <<env, use_gpt, uploaded, edited, df, df_sorted, model, summary,
                   whatif, hotspots, clicked, steps, msgs, requests, peers, csv_bytes,
                   smtp, prev>>

LibNext ==
    CallPredict \/ CallHeuristic \/ CallTrain \/ CallCategorize \/ CallInsight
    \/ CallCompare \/ CallHotspots \/ CallTop5 \/ CallPie

SpecLib == LibInit /\ [][LibNext]_vars

\* ------------------------------------------------------------------ properties of the library calls

Returned(fn) == pc = "returned" /\ call.fn = fn

\* the value is the float x (NaN only for NaN)
SameFloat(value, x) == IF x.nan THEN value.nan ELSE FracEq(value, x)

\* the prepared ledger holds a row with a positive amount and a regret: some
\* historical ratio exists
UsableHistory ==
    \E i \in 1..Len(df) :
        ~df[i].Amount.nan /\ df[i].Amount.v # 0 /\ ~df[i].Regret.nan

\* C2: predict_regret_with_fallback tries model, historical ratio, closed-form
\* proxy in this order: the method is "model" exactly when a model was
\* supplied and its predict succeeded, else "heuristic"; an exception of
\* predict never leaves the call; the proxy answers only when the ledger
\* yields no usable historical ratio.
C2_ThreeTiers ==
    Returned("predict_regret_with_fallback") =>
        LET succeeded == call.model.trained /\ ~call.model.fails /\ ~call.amount.nan
        IN  /\ ~ret.raised
            /\ ret.method = (IF succeeded THEN "model" ELSE "heuristic")
            /\ ret.tier = (IF succeeded THEN "model"
                           ELSE IF UsableHistory THEN "ratio" ELSE "proxy")
            /\ ret.tier = "model" =>
                  SameFloat(ret.value,
                            FracMax0(FracAdd(FracInt(call.model.offset),
                                             FracMul(FracInt(call.model.slope), call.amount))))
            /\ ret.tier = "proxy" =>
                  SameFloat(ret.value, FracMul(call.amount, Frac(5 - call.happiness, 5)))

\* a supplied model whose predict raised, answered by the historical ratio
C2_Witness ==
    /\ Returned("predict_regret_with_fallback")
    /\ call.model.trained /\ call.model.fails
    /\ UsableHistory
    /\ ret.method = "heuristic" /\ ret.tier = "ratio" /\ ~ret.value.nan

\* the rows of the ledger with a positive amount: the history
History == SelectSeq(_prepare_df(df), LAMBDA r : ~r.Amount.nan /\ r.Amount.v > 0)

\* C3: heuristic_predict uses the merchant's mean regret ratio if the
\* merchant has history, else the category's if the category has history,
\* else (neither has history) returns (1 - happiness/5) x amount.
C3_HeuristicTiers ==
    Returned("heuristic_predict") =>
        LET h     == History
            mhist == \E i \in 1..Len(h) : h[i].Merchant = call.merchant
            chist == \E i \in 1..Len(h) : h[i].Category = call.category
        IN  /\ mhist =>
                  SameFloat(ret.value,
                            FracMul(call.amount, FracMax0(merchant_ratio(h, call.merchant))))
            /\ (~mhist /\ chist) =>
                  SameFloat(ret.value,
                            FracMul(call.amount, FracMax0(category_ratio(h, call.category))))
            /\ (~mhist /\ ~chist) =>
                  SameFloat(ret.value, FracMul(call.amount, Frac(5 - call.happiness, 5)))

\* C6: after categorize_transactions returns, on either route, every row's
\* Category is a member of the taxonomy.
C6_CategoryInTaxonomy ==
    Returned("categorize_transactions") =>
        \A i \in 1..Len(ret.rows) : ret.rows[i].Category \in Taxonomy

\* what keyword matching gives for the merchants of the ledgers
KeywordCategory(merchant) ==
    CASE merchant = "Starbucks" -> "Dining"
      [] merchant = " Starbucks" -> "Dining"
      [] merchant = "Shell Gas" -> "Transport"
      [] merchant = "Target Pharmacy" -> "Shopping"
      [] OTHER -> "Other"

\* the request failed: the call raised, the reply held no JSON array, the
\* JSON was invalid, or an item lacked a merchant / category string
RequestFailed ==
    \/ call.reply.kind \in {"raise", "nojson", "badjson"}
    \/ \E k \in DOMAIN call.reply.items :
          NA \in {call.reply.items[k].merchant, call.reply.items[k].category}

\* C7: categorize_transactions never raises because of the LLM route; when
\* the request fails every row's Category is the keyword heuristic's, as on
\* the use_gpt=False route, and no row keeps an LLM category.
C7_LlmFailureFallsBack ==
    Returned("categorize_transactions") =>
        /\ ~ret.raised
        /\ Len(ret.rows) = Len(df)
        /\ RequestFailed =>
              /\ ret.rows = categorize_transactions(df, FALSE, env, NoReply).rows
              /\ \A i \in 1..Len(df) :
                    ret.rows[i] = [df[i] EXCEPT !.Category = KeywordCategory(df[i].Merchant)]

\* a reply whose first item is usable (Starbucks -> Transport) and whose
\* second lacks a category: the Starbucks row got the keyword category
C7_Witness ==
    /\ Returned("categorize_transactions")
    /\ call.reply.kind = "items" /\ RequestFailed
    /\ call.reply.items[1] = [merchant |-> "Starbucks", category |-> "Transport"]
    /\ Len(df) >= 1 /\ df[1].Merchant = "Starbucks"
    /\ ret.rows[1].Category = "Dining"

\* C8: one call of categorize_transactions issues at most one chat-completion
\* request, whatever the rows and merchants, and none when use_gpt is false
\* or OPENAI_API_KEY is unset; the same for generate_insight.
C8_AtMostOneRequest ==
    (Returned("categorize_transactions") \/ Returned("generate_insight")) =>
        /\ ret.requests \in {0, 1}
        /\ (~call.use_gpt \/ ~env.key) => ret.requests = 0

\* a categorization of two rows with two distinct merchants, one request
C8_Witness ==
    /\ Returned("categorize_transactions")
    /\ call.use_gpt /\ env.key /\ env.lib
    /\ Len(df) = 2 /\ df[1].Merchant # df[2].Merchant
    /\ ret.requests = 1

\* the categories of the returned table's rows
TableCategories == {ret.comp_df[i].Category : i \in 1..Len(ret.comp_df)}

\* what the table says beyond which rows it has: deltas, peer spend, order
C10_RowsRight(user_cats) ==
    LET profile == PEER_PROFILES[call.profile_name]
        t       == ret.comp_df
    IN  /\ \A i \in 1..Len(t) :
              LET user == t[i].user_avg_monthly_spend
                  peer == t[i].peer_avg_monthly_spend
              IN  IF t[i].Category \in DOMAIN profile
                  THEN /\ peer = FracInt(100 * profile[t[i].Category].avg_monthly_spend)
                       /\ ~t[i].pct_diff_spend.nan
                       /\ FracEq(FracMul(t[i].pct_diff_spend, peer),
                                 FracMul(FracSub(user, peer), FracInt(100)))
                       /\ t[i].Category \notin user_cats => user = FracInt(0)
                  ELSE /\ peer = FracInt(0)
                       /\ t[i].pct_diff_spend.nan
                       /\ t[i].pct_diff_regret_ratio.nan
        /\ \A i, j \in 1..Len(t) :
              i < j => FracLe(t[j].user_avg_monthly_spend, t[i].user_avg_monthly_spend)

C10_OneRowEach(user_cats) ==
    LET cats == user_cats \cup DOMAIN PEER_PROFILES[call.profile_name]
    IN  /\ TableCategories = cats
        /\ Len(ret.comp_df) = Cardinality(cats)

\* C10 as stated: one row for each category in the union of the user's
\* categories (those of the ledger's rows) and the profile's; pct_diff_spend
\* = (user - peer) / peer x 100 for a profile category, user spend 0 without
\* rows; peer spend 0 and no deltas for a category outside the profile; rows
\* by user spend, descending.
C10_PeerTable ==
    Returned("compare_to_peer_profile") =>
        LET cats == {df[i].Category : i \in 1..Len(df)} \ {NA}
        IN  C10_OneRowEach(cats) /\ C10_RowsRight(cats)

\* the rows the monthly aggregation can place: a category, and (when the
\* ledger has a Date column) a parseable date
Placeable(i) == df[i].Category # NA /\ (call.has_date => df[i].Date # NaT)

\* C10, amended: the user's categories are those of the rows that have a
\* category and, when the ledger has a Date column, a parseable date; the
\* rest as stated.
C10_PeerTableDated ==
    Returned("compare_to_peer_profile") =>
        LET cats == {df[i].Category : i \in {k \in 1..Len(df) : Placeable(k)}}
        IN  C10_OneRowEach(cats) /\ C10_RowsRight(cats)

\* a ledger with a dated Dining row and an undated Coffee row: the table has
\* a Dining row with the user's spend and no Coffee row
C10_Witness ==
    /\ Returned("compare_to_peer_profile")
    /\ call.has_date
    /\ \E i, j \in 1..Len(df) :
          /\ df[i].Category = "Dining" /\ df[i].Date # NaT
          /\ df[j].Category = "Coffee" /\ df[j].Date = NaT
    /\ "Coffee" \notin TableCategories
    /\ \E k \in 1..Len(ret.comp_df) :
          /\ ret.comp_df[k].Category = "Dining"
          /\ ret.comp_df[k].user_avg_monthly_spend.n > 0

\* ------------------------------------------------------------------ hotspots, ranked

\* every merchant of the prepared ledger with its prediction, before ranking
AllMerchantStats ==
    LET p  == _prepare_df(df)
        ms == OrderedNames({p[i].Merchant : i \in 1..Len(p)})
    IN  [k \in 1..Len(ms) |-> MerchantStat(p, call.model, ms[k])]

\* every category of the prepared ledger with its prediction, before ranking
AllCategoryStats ==
    LET p  == _prepare_df(df)
        cs == OrderedNames({p[i].Category : i \in 1..Len(p)})
    IN  [k \in 1..Len(cs) |-> CategoryStat(p, call.model, cs[k])]

\* a ranks no lower than b: b is not greater than a, and a prediction that is
\* not a number ranks below every number
RanksNoLower(a, b) == ~FracLt(a, b) /\ (a.nan => b.nan)

\* list is a ranking of stats: at most top_n entries, each one a line of
\* stats, no name twice, predicted regret non-increasing, nothing left out
\* that is greater than a listed entry
Ranked(list, stats, top_n) ==
    /\ Len(list) <= top_n
    /\ Len(list) = top_n \/ Len(list) = Len(stats)
    /\ \A i \in 1..Len(list) : \E k \in 1..Len(stats) : stats[k] = list[i]
    /\ \A i, j \in 1..Len(list) : i # j => list[i].name # list[j].name
    /\ \A i, j \in 1..Len(list) :
          i < j => RanksNoLower(list[i].predicted_regret, list[j].predicted_regret)
    /\ \A k \in 1..Len(stats) :
          (\A i \in 1..Len(list) : list[i].name # stats[k].name) =>
              \A i \in 1..Len(list) :
                  RanksNoLower(list[i].predicted_regret, stats[k].predicted_regret)

\* C11: compute_hotspots returns, for merchants and for categories, a list
\* ranked by predicted regret in non-increasing order, of at most top_n
\* entries, each name at most once, every name left out having a predicted
\* regret no greater than every listed one; both lists empty for an empty
\* ledger.
C11_HotspotsRanked ==
    Returned("compute_hotspots") =>
        /\ Ranked(ret.merchants, AllMerchantStats, call.top_n)
        /\ Ranked(ret.categories, AllCategoryStats, call.top_n)
        /\ df = <<>> => ret.merchants = <<>> /\ ret.categories = <<>>

\* two merchants, one listed and the other, of smaller predicted regret, left out
C11_Witness ==
    /\ Returned("compute_hotspots")
    /\ call.top_n = 1
    /\ Len(AllMerchantStats) = 2
    /\ Len(ret.merchants) = 1
    /\ \E k \in 1..2 : FracLt(AllMerchantStats[k].predicted_regret,
                              ret.merchants[1].predicted_regret)

\* ------------------------------------------------------------------ charts

\* the sum of Regret over the rows of category c, NaN counting as nothing
RegretOf(c) ==
    LET g == SelectSeq(df, LAMBDA r : r.Category = c /\ ~r.Regret.nan)
    IN  FracSum([i \in 1..Len(g) |-> FracInt(g[i].Regret.v)])

TotalRegret ==
    LET g == SelectSeq(df, LAMBDA r : r.Category # NA /\ ~r.Regret.nan)
    IN  FracSum([i \in 1..Len(g) |-> FracInt(g[i].Regret.v)])

\* C12: top5_regret_bar plots min(5, number of rows) purchases and no purchase
\* left out has a Regret greater than a plotted one; pie_regret_by_category
\* plots one slice per category, its value the sum of Regret over the
\* category's rows, or the single slice "No regret data" when the total
\* Regret is 0.
C12_Charts ==
    /\ Returned("top5_regret_bar") =>
          LET plotted == {ret.idx[k] : k \in 1..Len(ret.idx)}
          IN  /\ Len(ret.idx) = (IF Len(df) < 5 THEN Len(df) ELSE 5)
              /\ Cardinality(plotted) = Len(ret.idx)
              /\ plotted \subseteq 1..Len(df)
              /\ \A k \in 1..Len(ret.idx) : ret.bars[k] = df[ret.idx[k]]
              /\ \A i \in (1..Len(df)) \ plotted : \A j \in plotted :
                    ~FracLt(FracOf(df[j].Regret), FracOf(df[i].Regret))
    /\ Returned("pie_regret_by_category") =>
          IF FracEq(TotalRegret, FracInt(0))
          THEN ret.slices = NoRegretData
          ELSE LET cats == {df[i].Category : i \in 1..Len(df)} \ {NA}
               IN  /\ Len(ret.slices) = Cardinality(cats)
                   /\ {ret.slices[k].name : k \in 1..Len(ret.slices)} = cats
                   /\ \A k \in 1..Len(ret.slices) :
                         FracEq(ret.slices[k].value, RegretOf(ret.slices[k].name))

\* a bar chart of a ledger with more than five rows that leaves out a purchase
\* of smaller Regret than a plotted one
C12_Witness ==
    /\ Returned("top5_regret_bar")
    /\ Len(df) > 5
    /\ Len(ret.idx) = 5
    /\ \E i \in 1..Len(df) :
          /\ \A k \in 1..5 : ret.idx[k] # i
          /\ FracLt(FracOf(df[i].Regret), FracOf(df[ret.idx[5]].Regret))

\* ------------------------------------------------------------------ insight texts

\* C13: generate_insight returns a text and never raises because of the LLM:
\* "No spending data available." for an empty ledger; for a ledger with rows,
\* "Invalid mode requested." without a request when the mode is neither
\* "summary" nor "advice", on both routes; and the local summary (mode
\* summary) or local advice (mode advice), as the route without LLM returns
\* them, when the request fails.
C13_InsightText ==
    Returned("generate_insight") =>
        /\ ~ret.raised
        /\ df = <<>> => ret.text = Text("No spending data available.") /\ ret.requests = 0
        /\ (df # <<>> /\ call.mode \notin {"summary", "advice"}) =>
              ret.text = Text("Invalid mode requested.") /\ ret.requests = 0
        /\ (df # <<>> /\ call.outcome = "raise") =>
              /\ ret.text = generate_insight(df, FALSE, env, call.mode, "none").text
              /\ ret.text.kind = call.mode
              /\ call.mode = "summary" =>
                    Len(ret.text.rows) = (IF Len(df) < 5 THEN Len(df) ELSE 5)

\* a summary asked of the LLM whose request failed: the local summary came back
C13_Witness ==
    /\ Returned("generate_insight")
    /\ df # <<>>
    /\ call.use_gpt /\ call.outcome = "raise" /\ call.mode = "summary"
    /\ ret.requests = 1
    /\ ret.text.kind = "summary" /\ ret.text.rows # <<>>

\* ------------------------------------------------------------------ e-mail

\* the "Send email" handler has run in this script run
SendPressed == pc = "done" /\ clicked = "send"

\* log is the first calls of SmtpSteps, in their order
IsPrefix(log) == Len(log) <= Len(SmtpSteps) /\ log = SubSeq(SmtpSteps, 1, Len(log))

\* C14: on "Send email" a connection is opened only if host, username,
\* password and recipient are all filled in (otherwise an error is shown and
\* nothing is sent); the calls are made in the order STARTTLS, login,
\* send_message and none after a failed one; "Email sent!" is shown only
\* after send_message returned; a failure is shown as an error and the run
\* goes on to its end.
C14_EmailOrder ==
    /\ smtp.log # <<>> => smtp.filled = Fields
    /\ IsPrefix(smtp.log)
    /\ SendPressed =>
          /\ smtp.filled # Fields =>
                /\ smtp.log = <<>>
                /\ "error: fill SMTP host, username, password and recipient" \in msgs
                /\ "success: Email sent!" \notin msgs
          /\ (smtp.filled = Fields /\ smtp.outcome # "ok") =>
                /\ smtp.log # <<>>
                /\ smtp.log[Len(smtp.log)] = smtp.outcome
                /\ "error: Failed to send email" \in msgs
                /\ "success: Email sent!" \notin msgs
          /\ "success: Email sent!" \in msgs =>
                smtp.outcome = "ok" /\ smtp.log = SmtpSteps

\* a send whose login was refused: connect, STARTTLS and login were made,
\* send_message was not, and the error is shown
C14_Witness ==
    /\ SendPressed
    /\ smtp.filled = Fields
    /\ smtp.log = <<"connect", "starttls", "login">>
    /\ "error: Failed to send email" \in msgs

\* ------------------------------------------------------------------ export

\* how often v occurs in the sequence s
Count(s, v) == Cardinality({i \in 1..Len(s) : s[i] = v})

\* a and b hold the same rows, each as often, in some order
SameRows(a, b) ==
    /\ Len(a) = Len(b)
    /\ \A v \in Range(a) \cup Range(b) : Count(a, v) = Count(b, v)

\* the Regret a CSV line carries, as a float
LineRegret(line) == FracOf(line.Regret.v)

\* C15: the exported CSV (download and attachment) holds exactly the rows of
\* the current ledger, none added or dropped, by Regret in non-increasing
\* order, with the categories of Auto-categorize when the button was pressed
\* in this run: its lines are those of the validated table, categorized by
\* the button if pressed.
C15_ExportedCsv ==
    /\ smtp.log # <<>> => smtp.attachment = csv_bytes
    /\ csv_bytes.written =>
          /\ SameRows(csv_bytes.lines, [i \in 1..Len(df) |-> CsvLine(df[i])])
          /\ \A i, j \in 1..Len(csv_bytes.lines) :
                i < j => RanksNoLower(LineRegret(csv_bytes.lines[i]),
                                      LineRegret(csv_bytes.lines[j]))
          /\ IF clicked = "categorize"
             THEN \E reply \in {NoReply} \cup RunReplies :
                     LET res == categorize_transactions(Validate(edited), use_gpt, env, reply)
                     IN  /\ reply # NoReply <=> requests > 0
                         /\ SameRows(csv_bytes.lines,
                                     [i \in 1..Len(edited) |-> CsvLine(res.rows[i])])
             ELSE SameRows(csv_bytes.lines,
                           [i \in 1..Len(edited) |-> CsvLine(Validate(edited)[i])])

\* an export of two rows after Auto-categorize: the row of greater Regret
\* first, and a category the edited table did not have
C15_Witness ==
    /\ csv_bytes.written
    /\ clicked = "categorize"
    /\ Len(csv_bytes.lines) = 2
    /\ FracLt(LineRegret(csv_bytes.lines[2]), LineRegret(csv_bytes.lines[1]))
    /\ \E i \in 1..2 :
          csv_bytes.lines[i].Category.v \notin {edited[k].Category : k \in 1..Len(edited)}

\* ------------------------------------------------------------------ reruns

\* the run has passed the Auto-categorize handler
PastTab2 == pc \in {"tab3", "summary", "whatif", "hotspots", "peers", "tab4", "done"}

\* C16: nothing computed in one script run carries into the next: a run
\* starts without ledger, model or table; categories come from
\* Auto-categorize only in a run where the button was pressed, and are those
\* of the edited upload table otherwise; a model is there only if this run
\* trained it; the sample table is loaded only in the run its button was
\* pressed in.
C16_NothingCarries ==
    /\ pc = "start" =>
          /\ df = <<>> /\ edited = <<>> /\ df_sorted = <<>>
          /\ model = NoModel /\ uploaded = NoFile
          /\ steps = {} /\ requests = 0
    /\ (PastTab2 /\ clicked # "categorize") => df = Validate(edited)
    /\ model.trained => "train" \in steps /\ Len(df) >= MinSamples
    /\ uploaded.present => uploaded.source = "file" \/ clicked = "sample"

\* a run after one that categorized and trained: it has its own table, the
\* categories of that table, and no model
C16_Witness ==
    /\ prev
    /\ pc = "done"
    /\ clicked = "send"
    /\ df # <<>> /\ df = Validate(edited)
    /\ ~model.trained

\* ------------------------------------------------------------------ placeholder columns

\* the cell of line i of the uploaded table in the column whose trimmed,
\* lower-cased name is name
UploadedCell(i, name) ==
    uploaded.rows[i][CHOOSE j \in 1..Len(uploaded.header) :
                        TrimmedLower[uploaded.header[j]] = Chars[name]]

\* C17: load_transactions adds the placeholder columns only when they are
\* missing: a Category or Happiness column of the uploaded CSV is kept with
\* its values, and Category "" / Happiness 3 are filled in only when the CSV
\* has no such column.
C17_PlaceholdersOnlyWhenMissing ==
    (pc = "loaded" /\ uploaded.present) =>
        /\ Len(df) = Len(uploaded.rows)
        /\ \A i \in 1..Len(df) :
              /\ df[i].Category =
                    (IF HasColumn("category")
                     THEN ObjectCell(UploadedCell(i, "category")) ELSE "")
              /\ df[i].Happiness =
                    (IF HasColumn("happiness")
                     THEN HappinessCell(UploadedCell(i, "happiness")) ELSE HapNum(30))

\* ------------------------------------------------------------------ the LLM's table applied

\* a merchant or reply string without its surrounding whitespace
Trimmed == [s \in MerchantNames \cup ReplyStrings |-> Strip(s)]

\* the items of the reply that name the merchant m (whitespace around the
\* names aside)
ItemsFor(m) ==
    {k \in DOMAIN call.reply.items : Trimmed[call.reply.items[k].merchant] = Trimmed[m]}

\* C18: when the LLM route succeeds, every row whose merchant appears in the
\* LLM's merchant -> category table gets the category the LLM gave for that
\* merchant, and only rows whose merchant the LLM did not return get the
\* keyword-heuristic category.
C18_LlmTableApplied ==
    (Returned("categorize_transactions") /\ LlmEnabled(call.use_gpt, env)
                                         /\ ~RequestFailed) =>
        \A i \in 1..Len(df) :
            LET m == StrOfCell(df[i].Merchant)
            IN  IF ItemsFor(m) # {}
                THEN \E k \in ItemsFor(m) :
                        ret.rows[i].Category = Trimmed[call.reply.items[k].category]
                ELSE ret.rows[i].Category = KeywordCategory(m)

\* ------------------------------------------------------------------ what-if

\* C19: in the what-if simulator the percentage is predicted regret / amount
\* x 100 for an amount > 0 and 0 for the amount 0 (shown as a whole number);
\* the level is High exactly when pct >= 60, Medium exactly when
\* 25 <= pct < 60 and Low otherwise; the advice shown is the one of that
\* level; a purchase of amount 0 is Low.
C19_WhatIfRisk ==
    whatif.shown =>
        /\ IF whatif.amount > 0
           THEN FracEq(FracMul(whatif.pct, FracInt(whatif.amount)),
                       FracMul(whatif.pred, FracInt(100)))
           ELSE whatif.pct = FracInt(0)
        /\ 2 * Abs(whatif.pct_text * whatif.pct.d - whatif.pct.n) <= whatif.pct.d
        /\ whatif.level = "High" <=> FracLe(FracInt(60), whatif.pct)
        /\ whatif.level = "Medium" <=>
              (FracLe(FracInt(25), whatif.pct) /\ FracLt(whatif.pct, FracInt(60)))
        /\ whatif.level = "Low" <=> ~FracLe(FracInt(25), whatif.pct)
        /\ <<whatif.level, whatif.advice>> \in
              {<<"High", "warning">>, <<"Medium", "info">>, <<"Low", "success">>}
        /\ whatif.amount = 0 => whatif.level = "Low"

\* a prediction of exactly 60% of the amount: High, with the warning
C19_Witness ==
    /\ whatif.shown
    /\ whatif.amount > 0
    /\ FracEq(whatif.pct, FracInt(60))
    /\ whatif.level = "High" /\ whatif.advice = "warning"

\* ------------------------------------------------------------------ predicted regret

\* C20: for any ledger and any amount >= 0, predict_regret_with_fallback
\* returns a predicted regret >= 0, whichever tier produces it.
C20_PredictionNotNegative ==
    (Returned("predict_regret_with_fallback") /\ FracLe(FracInt(0), call.amount)) =>
        /\ ~ret.raised
        /\ FracLe(FracInt(0), ret.value)

\* a model whose raw prediction is negative answered: the predicted regret is 0
C20_Witness ==
    /\ Returned("predict_regret_with_fallback")
    /\ FracLt(FracInt(0), call.amount)
    /\ call.model.trained /\ ~call.model.fails /\ call.model.offset < 0
    /\ ret.tier = "model"
    /\ FracEq(ret.value, FracInt(0))

====
